---------------------------- MODULE Spec2Model ----------------------------
(***************************************************************************)
(* Model of the networked server of the split-computing system             *)
(* (src/server.py): the listener (_run_networked_server,                   *)
(* _accept_connections, cleanup), one session (handle_connection inside    *)
(* _safe_connection) and the byte stream of the peer it serves.            *)
(*                                                                         *)
(* A connection carries bytes (naturals below 256).  The peer writes       *)
(* chunks of bytes; conn.recv(n) returns between 1 and n of the pending    *)
(* bytes, or no byte once the peer has closed.  handle_connection is       *)
(* split at its blocking calls: every action below is the code between     *)
(* two blocking calls.                                                     *)
(***************************************************************************)
EXTENDS Naturals, Sequences, FiniteSets

VARIABLES
    pc,                 \* where the server process is
    server_socket,      \* self.server_socket: "None", "created", "listening", "closed"
    sock_ref,           \* whether self.server_socket still refers to the socket
    sock_timeout,       \* timeout of the listening socket (0: blocking)
    backlog,            \* connection attempts queued by the OS, not yet accepted
    conns,              \* every accepted connection: [open, outcome, escaped, served]
    inbuf,              \* bytes the peer wrote that the server has not read
    peer_open,          \* the peer has not closed its side
    chunks_sent,        \* chunks the peer wrote on the current connection
    out,                \* what the server wrote on the current connection
    config,             \* config returned by _receive_config in this session
    prefix,             \* what recv returned for the config length prefix
    config_data_len,    \* number of config bytes _receive_config received
    experiment,         \* local `experiment` of handle_connection
    header,             \* local `header` of handle_connection
    reqs,               \* split indices of the full headers read in this session
    reads,              \* read calls made on the connection in this session
    compress_data,      \* self.compress_data
    metrics,            \* self.metrics
    sigint,             \* a keyboard interrupt is pending
    stop_cause,         \* why the accept loop was left
    final_logs,         \* "Final metrics" lines logged
    \* SplitExperimentRunner (src/utils/experiment_utils.py)
    rpc,                \* where run_experiment is
    total_layers,       \* config["model"]["total_layers"]
    n_items,            \* len(self.data_loader)
    split_layer,        \* loop variable of run_experiment
    item,               \* work items of the data loader taken at this boundary
    timing,             \* the timings of a work item at this boundary
    host_times,         \* the three lists of test_split_performance
    travel_times,
    server_times,
    failed,             \* items for which process_single_image returned None
    performance_records,\* local performance_records of run_experiment
    best_split,         \* local best_split of run_experiment
    saved,              \* what save_results was given
    aggregated,         \* per record, the number of items it was summed from
    raised_by,          \* what raised the exception that left run_experiment
    \* Device and DeviceManager (src/api/device_mgmt.py)
    dpc,                \* where the construction of the device is
    device_record,      \* the record Device.__init__ is given
    valid_connections,  \* local valid_connections of Device.__init__
    connection_params,  \* self.connection_params
    working_cparams,    \* self.working_cparams: << >> for None
    checks_made,        \* the checks Device.__init__ made on the entries, in order
    probes,             \* the reachability probes made, with their results
    reachable_hosts,    \* the hosts that accept a connection now
    ctor_error,         \* the exception Device.__init__ raised
    last_call,          \* the operation called last on the constructed device
    last_return,        \* what it returned or raised
    \* SSHConnectionParams (src/api/device_mgmt.py)
    ppc,                \* where the construction of the parameters is
    source,             \* the dictionary from_dict is given
    username,           \* self.username: << >> while not set
    private_key,        \* self.private_key is set
    params_error,       \* what raised the ValueError of the construction
    \* DeviceManager (src/api/device_mgmt.py)
    mpc,                \* where the manager is: construction, ready, fan-out
    datafile,           \* the device configuration file: status and listed devices
    pkeys_dir,          \* the private key directory: ok, missing, bad_permissions
    is_windows,         \* os.name == "nt"
    load_pos,           \* listed devices _load_devices has gone through
    devices,            \* self.devices
    manager_error,      \* the exception DeviceManager.__init__ raised
    m_call,             \* the manager operation called last
    m_args,             \* its arguments
    fan_devices,        \* local `devices` of the fan-out operation
    attempted,          \* the devices the fan-out operation has called, by
                        \* host, and what each call returned or raised
    results,            \* local `results` of the fan-out operation
    m_return,           \* what the last operation returned or raised
    \* LAN.get_available_hosts (src/api/device_mgmt.py)
    lpc,                \* where the call is
    hosts,              \* the argument `hosts`: << >> for None or []
    max_threads,        \* the argument `max_threads`
    hosts_to_check,     \* local hosts_to_check
    work_queue,         \* the calls of check_host the executor has not started
    workers,            \* per worker thread: what it does, for which host
    lan_probes,         \* the calls of is_host_reachable made, with their results
    open_sockets,       \* the workers whose probe holds an open socket
    available_hosts,    \* the Queue available_hosts
    available,          \* the list returned
    \* the 4-byte length fields (src/server.py)
    cpc,                \* where the round trip of a length is
    length,             \* the length, as its high and low 16 bits
    field,              \* the bytes to_bytes(4, "big") gave
    decoded,            \* what int.from_bytes(field, "big") gave
    \* DeviceManager._save_devices and a manager loaded from what it wrote
    spc,                \* where the save and the reload are
    saved_file,         \* the mapping _save_devices wrote to the device file
    reloaded,           \* self.devices of a DeviceManager loaded from that file
    \* ExperimentHost.__init__ (src/host.py)
    hpc,                \* where the initialisation of the host is
    host_devices,       \* the devices of self.device_mgr
    exp_type,           \* config["experiment"]["type"]; "auto" when absent
    dataset,            \* what _setup_dataloader finds: ok, no_name, load_fails
    host_experiment,    \* self.experiment: << >> while not set
    host_error          \* the exception that left __init__, and where

\* the state of the server process
serverVars == <<pc, server_socket, sock_ref, sock_timeout, backlog, conns, inbuf,
                peer_open, chunks_sent, out, config, prefix, config_data_len,
                experiment, header, reqs, reads, compress_data, metrics, sigint,
                stop_cause, final_logs>>

\* the state of the experiment runner on the host
runnerVars == <<rpc, total_layers, n_items, split_layer, item, timing, host_times,
                travel_times, server_times, failed, performance_records,
                best_split, saved, aggregated, raised_by>>

\* the state of a device of the registry
deviceVars == <<dpc, device_record, valid_connections, connection_params,
                working_cparams, checks_made, probes, reachable_hosts,
                ctor_error, last_call, last_return>>

\* the state of the connection parameters under construction
paramsVars == <<ppc, source, username, private_key, params_error>>

\* the state of the device manager
managerVars == <<mpc, datafile, pkeys_dir, is_windows, load_pos, devices,
                 manager_error, m_call, m_args, fan_devices, attempted,
                 results, m_return>>

\* the state of a call of LAN.get_available_hosts
lanVars == <<lpc, hosts, max_threads, hosts_to_check, work_queue, workers,
             lan_probes, open_sockets, available_hosts, available>>

\* the state of a round trip of a length through a length field
codecVars == <<cpc, length, field, decoded>>

\* the state of a save of the registry and of the reload that follows
storeVars == <<spc, saved_file, reloaded>>

\* the state of the initialisation of the experiment host
hostVars == <<hpc, host_devices, exp_type, dataset, host_experiment, host_error>>

vars == <<serverVars, runnerVars, deviceVars, paramsVars, managerVars, lanVars,
         codecVars, storeVars, hostVars>>

\* what the server process, the runner, the device, the connection
\* parameters and the device manager cannot touch
nonServerVars == <<runnerVars, deviceVars, paramsVars, managerVars, lanVars,
                   codecVars, storeVars, hostVars>>
nonRunnerVars == <<serverVars, deviceVars, paramsVars, managerVars, lanVars,
                   codecVars, storeVars, hostVars>>
nonDeviceVars == <<serverVars, runnerVars, paramsVars, managerVars, lanVars,
                   codecVars, storeVars, hostVars>>
nonParamsVars == <<serverVars, runnerVars, deviceVars, managerVars, lanVars,
                   codecVars, storeVars, hostVars>>
nonManagerVars == <<serverVars, runnerVars, deviceVars, paramsVars, lanVars,
                    codecVars, storeVars, hostVars>>
nonLanVars == <<serverVars, runnerVars, deviceVars, paramsVars, managerVars,
                codecVars, storeVars, hostVars>>
nonCodecVars == <<serverVars, runnerVars, deviceVars, paramsVars, managerVars,
                  lanVars, storeVars, hostVars>>
nonStoreVars == <<serverVars, runnerVars, deviceVars, paramsVars, managerVars,
                  lanVars, codecVars, hostVars>>
nonHostVars == <<serverVars, runnerVars, deviceVars, paramsVars, managerVars,
                 lanVars, codecVars, storeVars>>

-----------------------------------------------------------------------------
(* Bounds of the model *)

MaxSessions == 2        \* connection attempts per process run
MaxChunks == 3          \* chunks a peer writes on one connection
MaxRequests == 2        \* requests processed per process run
MaxLayers == 3          \* largest total_layers of an experiment
MaxItems == 5           \* largest number of work items of a data loader
MantissaBits == 3       \* significant bits of a float of the model (for 53)
MaxCreds == 3           \* largest number of connection_params of a device record
MaxNameLen == 33        \* longest username without its surrounding whitespace
MaxPad == 2             \* most whitespace characters before or after a username
MaxDevices == 2         \* most devices listed in a device configuration file
MaxHosts == 3           \* most hosts given to get_available_hosts
MaxThreads == 2         \* largest max_threads of get_available_hosts

(* Program constants *)

LENGTH_PREFIX_SIZE == 4
\* mutant: the listening socket is left blocking
NoSocketTimeout == 1 - 1

\* settimeout(1.0) on the listening socket, in seconds
SocketTimeout == 1

\* _set_username: the length a stripped username must stay below
UsernameLimit == 32

-----------------------------------------------------------------------------
(* Bytes and integers on the wire *)

RECURSIVE FromBytesBig(_)
FromBytesBig(s) ==
    IF Len(s) = 0 THEN 0
    ELSE 256 * FromBytesBig(SubSeq(s, 1, Len(s) - 1)) + s[Len(s)]

ToBytesBig4(n) ==
    << (n \div 16777216) % 256, (n \div 65536) % 256, (n \div 256) % 256, n % 256 >>

Min(a, b) == IF a < b THEN a ELSE b
\* the slices s[:k] and s[k:]
Take(s, k) == SubSeq(s, 1, Min(k, Len(s)))
Drop(s, k) == SubSeq(s, Min(k, Len(s)) + 1, Len(s))


-----------------------------------------------------------------------------
(* Compression profiles and session configurations *)

\* _setup_compression: the minimal profile established at process start
MinimalProfile == [clevel |-> 1, filter |-> "NOFILTER", codec |-> "BLOSCLZ"]

\* a profile a client may carry in its config frame
ClientProfile == [clevel |-> 3, filter |-> "SHUFFLE", codec |-> "ZSTD"]

\* the config dictionaries of the model: without and with a "compression" key
PlainConfig == [has_compression |-> FALSE, compression |-> MinimalProfile]
CompressionConfig == [has_compression |-> TRUE, compression |-> ClientProfile]
Configs == {PlainConfig, CompressionConfig}

\* pickle.dumps(cfg): the dict opcode, one byte of content, the STOP opcode
PickleTag(cfg) == IF cfg.has_compression THEN 1 ELSE 0
PickleDumps(cfg) == <<125, PickleTag(cfg), 46>>

\* pickle.loads(data): the config whose serialization starts data (bytes after
\* STOP are ignored), as a sequence of length 1; <<>> when loads raises
PickleLoads(data) ==
    IF \E c \in Configs : Len(data) >= 3 /\ Take(data, 3) = PickleDumps(c)
    THEN << CHOOSE c \in Configs : Take(data, 3) = PickleDumps(c) >>
    ELSE << >>

\* DataCompression.decompress_data succeeds on a buffer whose first byte is its
\* own length (the codec's frame header)
DecompressOk(data) == Len(data) >= 1 /\ data[1] = Len(data)

\* DataCompression.compress_data(result): (bytes, size) for the result of the
\* given split index under the profile in force
CompressData(profile, idx) == <<3, profile.clevel, idx>>

-----------------------------------------------------------------------------
(* What a peer may write on a connection *)

SplitIndexes == {1, 2}
ProcTimes == {2, 123}   \* measured processing times, in whole seconds

\* a well-formed config frame: 4-byte big-endian length, then the pickle
Frame(cfg) == ToBytesBig4(Len(PickleDumps(cfg))) \o PickleDumps(cfg)
\* a config frame whose length prefix has only 3 bytes
ShortFrame(cfg) == Drop(Frame(cfg), 1)
\* a config frame whose body is no pickle
JunkFrame == ToBytesBig4(3) \o <<9, 9, 9>>
\* a compressed payload: the codec's frame header (its length), then content
ValidPayload == <<2, 7>>
\* a request: split index, payload length, compressed payload
Request(idx) == ToBytesBig4(idx) \o ToBytesBig4(Len(ValidPayload)) \o ValidPayload
\* a request whose payload does not decompress
BadRequest == ToBytesBig4(1) \o ToBytesBig4(Len(ValidPayload)) \o <<9, 9>>
\* a request whose payload stops short
TruncRequest == ToBytesBig4(1) \o ToBytesBig4(Len(ValidPayload)) \o <<2>>

PeerChunks ==
    {Frame(c) : c \in Configs} \cup {ShortFrame(CompressionConfig), JunkFrame}
    \cup {Request(i) : i \in SplitIndexes} \cup {BadRequest, TruncRequest}


-----------------------------------------------------------------------------
(* The initial state: after Server.__init__ in networked mode *)

SessionPcs == {"cfg_len", "cfg_body", "ready", "hdr", "hdr_chk", "payload"}
RunningPcs == {"setup", "accept"} \cup SessionPcs

NoBytes == << >>

\* ServerMetrics(): the dataclass defaults; the average is kept as a fraction
NewMetrics ==
    [total_requests |-> 0, total_processing_time |-> 0,
     avg_processing_time |-> <<0, 1>>]

\* no experiment runner in this process
RunnerIdle ==
    /\ rpc = "idle"
    /\ total_layers = 0
    /\ n_items = 0
    /\ split_layer = 0
    /\ item = 0
    /\ timing = << >>
    /\ host_times = << >>
    /\ travel_times = << >>
    /\ server_times = << >>
    /\ failed = {}
    /\ performance_records = << >>
    /\ best_split = << >>
    /\ saved = << >>
    /\ aggregated = << >>
    /\ raised_by = "none"

\* the server process in the state pc0
ServerAt(pc0) ==
    /\ pc = pc0
    /\ server_socket = "none"
    /\ sock_ref = FALSE
    /\ sock_timeout = 0
    /\ backlog = 0
    /\ conns = << >>
    /\ inbuf = NoBytes
    /\ peer_open = FALSE
    /\ chunks_sent = 0
    /\ out = << >>
    /\ config = << >>
    /\ prefix = NoBytes
    /\ config_data_len = 0
    /\ experiment = << >>
    /\ header = NoBytes
    /\ reqs = << >>
    /\ reads = 0
    /\ compress_data = << MinimalProfile >>
    /\ metrics = NewMetrics
    /\ sigint = FALSE
    /\ stop_cause = "none"
    /\ final_logs = 0

\* no device is being constructed
DeviceIdle ==
    /\ dpc = "idle"
    /\ device_record = [fields |-> "none", connection_params |-> << >>]
    /\ valid_connections = << >>
    /\ connection_params = << >>
    /\ working_cparams = << >>
    /\ checks_made = << >>
    /\ probes = << >>
    /\ reachable_hosts = {}
    /\ ctor_error = "none"
    /\ last_call = "none"
    /\ last_return = "none"

\* no connection parameters are being constructed
ParamsIdle ==
    /\ ppc = "idle"
    /\ source = << >>
    /\ username = << >>
    /\ private_key = FALSE
    /\ params_error = "none"

\* what an operation of the manager returns (value) or raises (raised)
NoReturn == [raised |-> "none", value |-> << >>]

\* the manager in the state mpc0, with nothing loaded and nothing called
ManagerAt(mpc0) ==
    /\ mpc = mpc0
    /\ load_pos = 0
    /\ devices = << >>
    /\ manager_error = "none"
    /\ m_call = "none"
    /\ m_args = << >>
    /\ fan_devices = << >>
    /\ attempted = << >>
    /\ results = << >>
    /\ m_return = NoReturn

\* no device manager in this process
ManagerIdle ==
    /\ ManagerAt("idle")
    /\ datafile = [status |-> "none", devices |-> << >>]
    /\ pkeys_dir = "none"
    /\ is_windows = FALSE

\* no call of get_available_hosts
LanIdle ==
    /\ lpc = "idle"
    /\ hosts = << >>
    /\ max_threads = 0
    /\ hosts_to_check = << >>
    /\ work_queue = << >>
    /\ workers = << >>
    /\ lan_probes = << >>
    /\ open_sockets = {}
    /\ available_hosts = << >>
    /\ available = << >>

\* no length is being encoded
CodecIdle ==
    /\ cpc = "idle"
    /\ length = << 0, 0 >>
    /\ field = << >>
    /\ decoded = << 0, 0 >>

\* nothing was saved
StoreIdle ==
    /\ spc = "idle"
    /\ saved_file = << >>
    /\ reloaded = << >>

\* no experiment host in this process
HostIdle ==
    /\ hpc = "idle"
    /\ host_devices = << >>
    /\ exp_type = "auto"
    /\ dataset = "ok"
    /\ host_experiment = << >>
    /\ host_error = [exc |-> "none", at |-> "none"]

Init ==
    /\ ServerAt("init")
    /\ HostIdle
    /\ StoreIdle
    /\ CodecIdle
    /\ RunnerIdle
    /\ DeviceIdle
    /\ ParamsIdle
    /\ ManagerIdle
    /\ LanIdle

sessionVars == <<conns, inbuf, peer_open, chunks_sent, out, config, prefix,
                 config_data_len, experiment, header, reqs, reads>>
\* the locals of handle_connection and the state of its connection
localVars == <<inbuf, peer_open, chunks_sent, prefix, config_data_len, header>>
socketVars == <<server_socket, sock_ref, sock_timeout>>

-----------------------------------------------------------------------------
(* The peers *)

\* a client connects; the OS queues the attempt until accept takes it
PeerConnect ==
    /\ server_socket = "listening"
    /\ Len(conns) + backlog < MaxSessions
    /\ backlog' = backlog + 1
    /\ UNCHANGED <<pc, socketVars, sessionVars, compress_data, metrics, sigint,
                   stop_cause, final_logs>>
    /\ UNCHANGED nonServerVars

\* the peer of the connection being served writes a chunk, once the server
\* has read what it wrote before
PeerSend ==
    /\ pc \in SessionPcs
    /\ peer_open
    /\ chunks_sent < MaxChunks
    /\ inbuf = NoBytes
    /\ \E c \in PeerChunks : inbuf' = inbuf \o c
    /\ chunks_sent' = chunks_sent + 1
    /\ UNCHANGED <<pc, socketVars, backlog, conns, peer_open, out, config,
                   prefix, config_data_len, experiment, header, reqs, reads,
                   compress_data, metrics, sigint, stop_cause, final_logs>>
    /\ UNCHANGED nonServerVars

\* the peer closes its side of the connection
PeerClose ==
    /\ pc \in SessionPcs
    /\ peer_open
    /\ peer_open' = FALSE
    /\ UNCHANGED <<pc, socketVars, backlog, conns, inbuf, chunks_sent, out,
                   config, prefix, config_data_len, experiment, header, reqs,
                   reads, compress_data, metrics, sigint, stop_cause,
                   final_logs>>
    /\ UNCHANGED nonServerVars

\* the operator presses Ctrl-C while the server runs
RaiseSigint ==
    /\ pc \in RunningPcs
    /\ ~sigint
    /\ sigint' = TRUE
    /\ UNCHANGED <<pc, socketVars, backlog, sessionVars, compress_data,
                   metrics, stop_cause, final_logs>>
    /\ UNCHANGED nonServerVars


-----------------------------------------------------------------------------
(* Socket reads *)

\* conn.recv(n): the numbers of bytes a call may return now; the call blocks
\* while nothing is pending and the peer has not closed
RecvSizes(n) ==
    IF inbuf = NoBytes
    THEN (IF peer_open THEN {} ELSE {0})
    ELSE 1 .. Min(n, Len(inbuf))

\* receive_full_message(conn, n) can return: n bytes are pending, or the peer
\* has closed
FullAvailable(n) == Len(inbuf) >= n \/ ~peer_open
\* what receive_full_message(conn, n) returns
FullData(n) == IF Len(inbuf) >= n THEN Take(inbuf, n) ELSE inbuf

-----------------------------------------------------------------------------
(* Leaving a session: _safe_connection *)

\* mutant: the except clause catches connection errors only
CatchesConnectionErrorOnly(exc) == exc = "ConnectionError"

\* the except clause of _safe_connection catches Exception, and nothing else
SafeConnectionCatches(exc) == exc = "Exception"

\* mutant: the connection is closed after the except clause, not in a finally
ClosedUnlessInterrupted(exc) == exc \in {"none", "Exception"}

\* the finally clause of _safe_connection closes the connection whatever
\* ended the with block
ConnClosedOnExit(exc) == exc \in {"none", "Exception", "KeyboardInterrupt"}

\* the with block of handle_connection ends with exc: "none" (break),
\* "Exception" or "KeyboardInterrupt".  The locals of handle_connection are
\* gone and what the peer wrote and was not read is dropped with the
\* connection.  An exception that is not caught leaves handle_connection and
\* _accept_connections and ends in the handlers of _run_networked_server,
\* whose finally clause runs cleanup.
ExitSessionServed(exc, served_now) ==
    /\ conns' = [conns EXCEPT ![Len(conns)] =
                    [open |-> ~ConnClosedOnExit(exc),
                     outcome |-> IF exc = "none" THEN "clean" ELSE exc,
                     escaped |-> ~(exc = "none" \/ SafeConnectionCatches(exc)),
                     served |-> served_now]]
    /\ IF exc = "none" \/ SafeConnectionCatches(exc)
       THEN pc' = "accept" /\ stop_cause' = stop_cause
       ELSE /\ pc' = "cleanup1"
            /\ stop_cause' = IF exc = "KeyboardInterrupt"
                             THEN "KeyboardInterrupt" ELSE "session_error"
    /\ inbuf' = NoBytes
    /\ peer_open' = FALSE
    /\ chunks_sent' = 0
    /\ prefix' = NoBytes
    /\ config_data_len' = 0
    /\ header' = NoBytes

ExitSession(exc) == ExitSessionServed(exc, conns[Len(conns)].served)

\* KeyboardInterrupt is raised in the main thread, wherever it is
InterruptRaised ==
    /\ sigint' = FALSE
    /\ IF pc \in SessionPcs
       THEN ExitSession("KeyboardInterrupt")
       ELSE /\ pc' = "cleanup1"
            /\ stop_cause' = "KeyboardInterrupt"
            /\ UNCHANGED <<conns, localVars>>

-----------------------------------------------------------------------------
(* The listener *)

\* _run_networked_server, before the try block: the SERVER device must be
\* configured, reachable and have an experiment port, or the method returns
RunNetworkedServer ==
    /\ pc = "init"
    /\ \E device_ok \in BOOLEAN : pc' = IF device_ok THEN "setup" ELSE "cleanup2"
    /\ UNCHANGED <<socketVars, backlog, sessionVars, compress_data, metrics,
                   sigint, stop_cause, final_logs>>
    /\ UNCHANGED nonServerVars

\* _setup_socket: socket(), setsockopt, settimeout, bind, listen; a failure is
\* logged and raised again, and ends in cleanup
SetupSocket ==
    /\ pc = "setup"
    /\ ~sigint
    /\ \E step \in {"socket", "bind", "done"} :
        /\ server_socket' =
              CASE step = "socket" -> "none"
                [] step = "bind" -> "created"
                [] OTHER -> "listening"
        /\ sock_ref' = (step # "socket")
        /\ sock_timeout' = IF step = "socket" THEN 0 ELSE SocketTimeout
        /\ pc' = IF step = "done" THEN "accept" ELSE "cleanup1"
        /\ stop_cause' = IF step = "done" THEN stop_cause ELSE "setup_error"
    /\ UNCHANGED <<backlog, sessionVars, compress_data, metrics, sigint,
                   final_logs>>
    /\ UNCHANGED nonServerVars

\* mutant: a connection is accepted while a session is still being served
AcceptWhileServing ==
    /\ pc \in {"accept"} \cup SessionPcs
    /\ backlog > 0
    /\ ~sigint
    /\ backlog' = backlog - 1
    /\ conns' = Append(conns, [open |-> TRUE, outcome |-> "serving",
                               escaped |-> FALSE, served |-> 0])
    /\ pc' = "cfg_len"
    /\ inbuf' = NoBytes
    /\ peer_open' = TRUE
    /\ chunks_sent' = 0
    /\ out' = << >>
    /\ config' = << >>
    /\ prefix' = NoBytes
    /\ config_data_len' = 0
    /\ experiment' = << >>
    /\ header' = NoBytes
    /\ reqs' = << >>
    /\ reads' = 0
    /\ UNCHANGED <<socketVars, compress_data, metrics, sigint, stop_cause,
                   final_logs>>
    /\ UNCHANGED nonServerVars

\* mutant: every session starts with fresh metrics
AcceptConnectionNewMetrics ==
    /\ pc = "accept"
    /\ backlog > 0
    /\ ~sigint
    /\ backlog' = backlog - 1
    /\ conns' = Append(conns, [open |-> TRUE, outcome |-> "serving",
                               escaped |-> FALSE, served |-> 0])
    /\ pc' = "cfg_len"
    /\ inbuf' = NoBytes
    /\ peer_open' = TRUE
    /\ chunks_sent' = 0
    /\ out' = << >>
    /\ config' = << >>
    /\ prefix' = NoBytes
    /\ config_data_len' = 0
    /\ experiment' = << >>
    /\ header' = NoBytes
    /\ reqs' = << >>
    /\ reads' = 0
    /\ metrics' = NewMetrics
    /\ UNCHANGED <<socketVars, compress_data, sigint, stop_cause, final_logs>>
    /\ UNCHANGED nonServerVars

\* _accept_connections: accept() returns a connection and handle_connection
\* starts; with a keyboard interrupt pending, the interrupt is raised as soon
\* as the call has returned and the connection is dropped unhandled
AcceptConnection ==
    /\ pc = "accept"
    /\ backlog > 0
    /\ backlog' = backlog - 1
    /\ IF sigint
       THEN /\ InterruptRaised
            /\ UNCHANGED <<out, config, experiment, reqs, reads>>
       ELSE /\ conns' = Append(conns, [open |-> TRUE, outcome |-> "serving",
                                       escaped |-> FALSE, served |-> 0])
            /\ pc' = "cfg_len"
            /\ inbuf' = NoBytes
            /\ peer_open' = TRUE
            /\ chunks_sent' = 0
            /\ out' = << >>
            /\ config' = << >>
            /\ prefix' = NoBytes
            /\ config_data_len' = 0
            /\ experiment' = << >>
            /\ header' = NoBytes
            /\ reqs' = << >>
            /\ reads' = 0
            /\ UNCHANGED <<sigint, stop_cause>>
    /\ UNCHANGED <<socketVars, compress_data, metrics, final_logs>>
    /\ UNCHANGED nonServerVars

\* _accept_connections: accept() raises socket.timeout and the loop continues;
\* a pending keyboard interrupt is raised as soon as the call has returned
AcceptTimeout ==
    /\ pc = "accept"
    /\ sock_timeout > 0
    /\ backlog = 0
    /\ IF sigint
       THEN InterruptRaised
       ELSE UNCHANGED <<pc, conns, sigint, stop_cause, localVars>>
    /\ UNCHANGED <<socketVars, backlog, out, config, experiment, reqs, reads,
                   compress_data, metrics, final_logs>>
    /\ UNCHANGED nonServerVars

\* _accept_connections: accept() raises; a ConnectionError is logged and the
\* loop continues, any other error leaves the loop
AcceptRaises ==
    /\ pc = "accept"
    /\ ~sigint
    /\ \E err \in {"ConnectionError", "OSError"} :
        IF err = "ConnectionError"
        THEN UNCHANGED <<pc, stop_cause>>
        ELSE pc' = "cleanup1" /\ stop_cause' = "accept_error"
    /\ UNCHANGED <<socketVars, backlog, sessionVars, compress_data, metrics,
                   sigint, final_logs>>
    /\ UNCHANGED nonServerVars

\* the signal interrupts the main thread where it is (a blocking call that
\* the platform lets a signal interrupt, or running code)
DeliverInterrupt ==
    /\ pc \in RunningPcs
    /\ sigint
    /\ InterruptRaised
    /\ UNCHANGED <<socketVars, backlog, out, config, experiment, reqs, reads,
                   compress_data, metrics, final_logs>>
    /\ UNCHANGED nonServerVars


-----------------------------------------------------------------------------
(* One session: handle_connection *)

\* _update_compression: a config with a "compression" key replaces
\* self.compress_data, any other config leaves it as it is
UpdateCompression(cfg) ==
    IF cfg.has_compression THEN << cfg.compression >> ELSE compress_data

\* mutant: the average is computed before the request is counted
MetricsUpdateStaleAverage(m, processing_time) ==
    [total_requests |-> m.total_requests + 1,
     total_processing_time |-> m.total_processing_time + processing_time,
     avg_processing_time |-> << m.total_processing_time + processing_time,
                                IF m.total_requests = 0 THEN 1 ELSE m.total_requests >>]

\* ServerMetrics.update
MetricsUpdate(m, processing_time) ==
    [total_requests |-> m.total_requests + 1,
     total_processing_time |-> m.total_processing_time + processing_time,
     avg_processing_time |-> << m.total_processing_time + processing_time,
                                m.total_requests + 1 >>]

\* what the server writes: the acknowledgment and the three parts of a response
Ack == [kind |-> "ack", val |-> <<79, 75>>]
LenField(result_size) == [kind |-> "len", val |-> ToBytesBig4(result_size)]
\* the decimal digits of n, as ASCII bytes
RECURSIVE Decimal(_)
Decimal(n) == IF n < 10 THEN << 48 + n >> ELSE Decimal(n \div 10) \o << 48 + (n % 10) >>

\* mutant: the text is truncated but not padded
TimeFieldUnpadded(t) ==
    [kind |-> "time", val |-> Take(Decimal(t) \o << 46, 48 >>, LENGTH_PREFIX_SIZE)]

\* str(processing_time).ljust(4).encode()[:4] of the float t.0: the text
\* "t.0", spaces appended up to 4 characters, the first 4 bytes of that
TimeField(t) ==
    LET text == Decimal(t) \o << 46, 48 >>
        ljust == text \o [i \in 1 .. (LENGTH_PREFIX_SIZE - Len(text)) |-> 32]
    IN  [kind |-> "time", val |-> Take(ljust, LENGTH_PREFIX_SIZE)]
DataField(compressed_result) == [kind |-> "data", val |-> compressed_result]

\* mutant: the processing time is written before the result length
SendResultTimeFirst(result_size, processing_time, compressed_result) ==
    << TimeField(processing_time), LenField(result_size),
       DataField(compressed_result) >>

\* _send_result: the parts of the response in the order they are written
SendResult(result_size, processing_time, compressed_result) ==
    << LenField(result_size), TimeField(processing_time),
       DataField(compressed_result) >>

\* an exception of a blocking socket call of the session (connection reset)
SocketError ==
    /\ pc \in {"cfg_len", "cfg_body", "hdr", "payload"}
    /\ ~sigint
    /\ ExitSession("Exception")
    /\ UNCHANGED <<socketVars, backlog, out, config, experiment, reqs, reads,
                   compress_data, metrics, sigint, final_logs>>
    /\ UNCHANGED nonServerVars

\* _receive_config, line 293: the config length is decoded from whatever one
\* recv(4) returns
config_length == FromBytesBig(prefix)

\* _receive_config, first half: recv(4), then the check of self.compress_data
ReceiveConfigLength ==
    /\ pc = "cfg_len"
    /\ ~sigint
    /\ \E k \in RecvSizes(LENGTH_PREFIX_SIZE) :
        /\ prefix' = Take(inbuf, k)
        /\ inbuf' = Drop(inbuf, k)
    /\ reads' = reads + 1
    /\ IF compress_data = << >>
       THEN config' = << PlainConfig >> /\ pc' = "ready"
       ELSE config' = config /\ pc' = "cfg_body"
    /\ UNCHANGED <<socketVars, backlog, conns, peer_open, chunks_sent, out,
                   config_data_len, experiment, header, reqs, compress_data,
                   metrics, sigint, stop_cause, final_logs>>
    /\ UNCHANGED nonServerVars

\* _receive_config, second half, and _update_compression: the config bytes are
\* received and unpickled, the compression settings are taken from the config
ReceiveConfig ==
    /\ pc = "cfg_body"
    /\ ~sigint
    /\ FullAvailable(config_length)
    /\ reads' = reads + 1
    /\ LET config_data == FullData(config_length)
           loaded == PickleLoads(config_data)
       IN  IF loaded = << >>
           THEN /\ ExitSession("Exception")
                /\ UNCHANGED <<config, compress_data>>
           ELSE /\ inbuf' = Drop(inbuf, Len(config_data))
                /\ config_data_len' = Len(config_data)
                /\ config' = loaded
                /\ compress_data' = UpdateCompression(loaded[1])
                /\ pc' = "ready"
                /\ UNCHANGED <<conns, stop_cause, peer_open, chunks_sent,
                               prefix, header>>
    /\ UNCHANGED <<socketVars, backlog, out, experiment, reqs, metrics,
                   sigint, final_logs>>
    /\ UNCHANGED nonServerVars

\* mutant: the acknowledgment is sent before the experiment is set up
AckBeforeSetup ==
    /\ pc = "ready"
    /\ ~sigint
    /\ \E raises \in {"setup", "sendall", "nothing"} :
        /\ experiment' = IF raises = "setup" THEN experiment ELSE config
        /\ out' = IF raises = "sendall" THEN out ELSE Append(out, Ack)
        /\ IF raises = "nothing"
           THEN /\ pc' = "hdr"
                /\ UNCHANGED <<conns, stop_cause, localVars>>
           ELSE ExitSession("Exception")
    /\ UNCHANGED <<socketVars, backlog, config, reqs, reads, compress_data,
                   metrics, sigint, final_logs>>
    /\ UNCHANGED nonServerVars

\* handle_connection, lines 353-362: the experiment is set up for the config,
\* then the acknowledgment is sent
SetupExperimentAndAck ==
    /\ pc = "ready"
    /\ ~sigint
    /\ \E raises \in {"setup", "sendall", "nothing"} :
        /\ experiment' = IF raises = "setup" THEN experiment ELSE config
        /\ IF raises = "nothing"
           THEN /\ out' = Append(out, Ack)
                /\ pc' = "hdr"
                /\ UNCHANGED <<conns, stop_cause, localVars>>
           ELSE /\ ExitSession("Exception")
                /\ out' = out
    /\ UNCHANGED <<socketVars, backlog, config, reqs, reads, compress_data,
                   metrics, sigint, final_logs>>
    /\ UNCHANGED nonServerVars

\* the serving loop, line 367: one recv of the 8-byte header
ReceiveHeader ==
    /\ pc = "hdr"
    /\ ~sigint
    /\ \E k \in RecvSizes(LENGTH_PREFIX_SIZE * 2) :
        /\ header' = Take(inbuf, k)
        /\ inbuf' = Drop(inbuf, k)
    /\ reads' = reads + 1
    /\ pc' = "hdr_chk"
    /\ UNCHANGED <<socketVars, backlog, conns, peer_open, chunks_sent, out,
                   config, prefix, config_data_len, experiment, reqs,
                   compress_data, metrics, sigint, stop_cause, final_logs>>
    /\ UNCHANGED nonServerVars

\* mutant: only an empty header leaves the loop
CheckHeaderEmptyOnly ==
    /\ pc = "hdr_chk"
    /\ ~sigint
    /\ IF header = NoBytes \/ compress_data = << >>
       THEN /\ ExitSession("none")
            /\ reqs' = reqs
       ELSE /\ reqs' = Append(reqs, FromBytesBig(Take(header, LENGTH_PREFIX_SIZE)))
            /\ pc' = "payload"
            /\ UNCHANGED <<conns, stop_cause, localVars>>
    /\ UNCHANGED <<socketVars, backlog, out, config, experiment, reads,
                   compress_data, metrics, sigint, final_logs>>
    /\ UNCHANGED nonServerVars

\* the serving loop, lines 368-377: a header that is not 8 bytes long, or a
\* server without compression, leaves the loop
CheckHeader ==
    /\ pc = "hdr_chk"
    /\ ~sigint
    /\ IF Len(header) # LENGTH_PREFIX_SIZE * 2 \/ compress_data = << >>
       THEN /\ ExitSession("none")
            /\ reqs' = reqs
       ELSE /\ reqs' = Append(reqs, FromBytesBig(Take(header, LENGTH_PREFIX_SIZE)))
            /\ pc' = "payload"
            /\ UNCHANGED <<conns, stop_cause, localVars>>
    /\ UNCHANGED <<socketVars, backlog, out, config, experiment, reads,
                   compress_data, metrics, sigint, final_logs>>
    /\ UNCHANGED nonServerVars

\* the serving loop, lines 379-407: the payload is received, decompressed and
\* processed, the metrics are updated, the result is compressed and sent.
\* `raises` is the call that raises, if one does.
ServeRequest ==
    /\ pc = "payload"
    /\ ~sigint
    /\ metrics.total_requests < MaxRequests
    /\ reads' = reads + 1
    /\ LET split_layer_index == FromBytesBig(Take(header, LENGTH_PREFIX_SIZE))
           expected_length == FromBytesBig(Drop(header, LENGTH_PREFIX_SIZE))
           compressed_data == FullData(expected_length)
           compressed_result == CompressData(compress_data[1], split_layer_index)
           served == conns[Len(conns)].served
       IN  /\ FullAvailable(expected_length)
           /\ IF ~DecompressOk(compressed_data)
              THEN /\ ExitSession("Exception")
                   /\ UNCHANGED <<metrics, out>>
              ELSE \E processing_time \in ProcTimes :
                   \E raises \in {"process", "compress", "send_len",
                                  "send_time", "send_data", "nothing"} :
                     LET response == SendResult(Len(compressed_result),
                                                processing_time, compressed_result)
                         written == CASE raises = "nothing" -> 3
                                      [] raises = "send_data" -> 2
                                      [] raises = "send_time" -> 1
                                      [] OTHER -> 0
                     IN  /\ out' = out \o Take(response, written)
                         /\ CASE raises = "process" ->
                                   /\ metrics' = metrics
                                   /\ ExitSession("Exception")
                              [] raises = "nothing" ->
                                   /\ metrics' = MetricsUpdate(metrics, processing_time)
                                   /\ conns' = [conns EXCEPT ![Len(conns)].served = served + 1]
                                   /\ pc' = "hdr"
                                   /\ inbuf' = Drop(inbuf, Len(compressed_data))
                                   /\ header' = NoBytes
                                   /\ UNCHANGED <<stop_cause, peer_open, chunks_sent,
                                                  prefix, config_data_len>>
                              [] OTHER ->
                                   /\ metrics' = MetricsUpdate(metrics, processing_time)
                                   /\ ExitSessionServed("Exception", served + 1)
    /\ UNCHANGED <<socketVars, backlog, config, experiment, reqs,
                   compress_data, sigint, final_logs>>
    /\ UNCHANGED nonServerVars

-----------------------------------------------------------------------------
(* Leaving the process: cleanup *)

\* Server.cleanup: the listening socket is shut down, closed and forgotten
\* unless shutdown or close raises; the final metrics are logged when a
\* request was processed
Cleanup(next_pc) ==
    /\ IF sock_ref
       THEN \E raises \in BOOLEAN :
              IF raises
              THEN UNCHANGED <<server_socket, sock_ref>>
              ELSE server_socket' = "closed" /\ sock_ref' = FALSE
       ELSE UNCHANGED <<server_socket, sock_ref>>
    /\ final_logs' = IF metrics.total_requests > 0
                     THEN final_logs + 1 ELSE final_logs
    /\ pc' = next_pc
    /\ UNCHANGED <<sock_timeout, backlog, sessionVars, compress_data, metrics,
                   sigint, stop_cause>>
    /\ UNCHANGED nonServerVars

\* the finally clause of _run_networked_server
CleanupInRun == pc = "cleanup1" /\ Cleanup("cleanup2")

\* the finally clause of the entry point
CleanupAtExit == pc = "cleanup2" /\ Cleanup("exited")

-----------------------------------------------------------------------------
(* The specification *)

Next ==
    \/ PeerConnect
    \/ PeerSend
    \/ PeerClose
    \/ RaiseSigint
    \/ RunNetworkedServer
    \/ SetupSocket
    \/ AcceptConnection
    \/ AcceptTimeout
    \/ AcceptRaises
    \/ DeliverInterrupt
    \/ SocketError
    \/ ReceiveConfigLength
    \/ ReceiveConfig
    \/ SetupExperimentAndAck
    \/ ReceiveHeader
    \/ CheckHeader
    \/ ServeRequest
    \/ CleanupInRun
    \/ CleanupAtExit

Spec == Init /\ [][Next]_vars

\* the scheduling the code guarantees: a blocking accept with a timeout
\* returns, an accept with a pending connection returns, cleanup runs to its end
FairSpec ==
    /\ Spec
    /\ WF_vars(AcceptTimeout)
    /\ WF_vars(AcceptConnection)
    /\ WF_vars(CleanupInRun)
    /\ WF_vars(CleanupAtExit)

-----------------------------------------------------------------------------
(* Floating-point arithmetic of the timings *)

\* the spacing of the floats around x: 1 up to MantissaBits bits, doubling
\* with every further bit
RECURSIVE Quantum(_)
Quantum(x) == IF x < 2 ^ MantissaBits THEN 1 ELSE 2 * Quantum(x \div 2)

\* x rounded to the nearest float, ties to the even mantissa
RoundFloat(x) ==
    LET q == Quantum(x)
        lo == (x \div q) * q
        r == x - lo
    IN  IF 2 * r < q THEN lo
        ELSE IF 2 * r > q THEN lo + q
        ELSE IF (x \div q) % 2 = 0 THEN lo ELSE lo + q

\* a + b and n * x on floats
FloatAdd(a, b) == RoundFloat(a + b)
FloatMul(n, x) == RoundFloat(n * x)

\* the builtin sum of a list of floats: additions from the left, starting at 0
RECURSIVE Sum(_)
Sum(l) ==
    IF l = << >> THEN 0
    ELSE FloatAdd(Sum(SubSeq(l, 1, Len(l) - 1)), l[Len(l)])

-----------------------------------------------------------------------------
(* The experiment runner: SplitExperimentRunner.run_experiment *)

\* the (host_time, travel_time, server_time) measured for a work item, in
\* units of the smallest timing the model tells apart; the work items of one
\* boundary take the same time
Triples == { <<1, 2, 7>>, <<3, 1, 1>> }

\* where process_single_image may raise: host processing (model, compression),
\* communicate_with_server (transmission, decoding of the response)
ItemStages == {"host", "communicate"}

\* a sweep about to start: the pipeline has total_layers stages, the data
\* loader n_items work items
RunnerInit ==
    /\ ServerAt("off")
    /\ HostIdle
    /\ StoreIdle
    /\ CodecIdle
    /\ DeviceIdle
    /\ ParamsIdle
    /\ ManagerIdle
    /\ LanIdle
    /\ rpc = "start"
    /\ total_layers \in 1 .. MaxLayers
    /\ n_items \in 0 .. MaxItems
    /\ split_layer = 0
    /\ item = 0
    /\ timing = << >>
    /\ host_times = << >>
    /\ travel_times = << >>
    /\ server_times = << >>
    /\ failed = {}
    /\ performance_records = << >>
    /\ best_split = << >>
    /\ saved = << >>
    /\ aggregated = << >>
    /\ raised_by = "none"

\* run_experiment, lines 169-171
RunExperiment ==
    /\ rpc = "start"
    /\ rpc' = "loop"
    /\ performance_records' = << >>
    /\ UNCHANGED <<total_layers, n_items, split_layer, item, timing, host_times,
                   travel_times, server_times, failed, best_split, saved,
                   aggregated, raised_by>>
    /\ UNCHANGED nonRunnerVars

\* mutant: the sweep includes the boundary total_layers
RangeIncludesLast(k, n) == k <= n

\* k in range(1, total_layers) for k >= 1
InRange(k, n) == k < n

\* run_experiment, line 173, and test_split_performance, lines 125-128: the
\* next boundary of the sweep starts with empty lists; creating its image
\* directory may fail
NextSplit ==
    /\ rpc = "loop"
    /\ IF InRange(split_layer + 1, total_layers)
       THEN \E mkdir_ok \in BOOLEAN, tr \in Triples :
              /\ split_layer' = split_layer + 1
              /\ timing' = << tr >>
              /\ host_times' = << >>
              /\ travel_times' = << >>
              /\ server_times' = << >>
              /\ failed' = {}
              /\ item' = 0
              /\ rpc' = IF mkdir_ok THEN "item" ELSE "raised"
              /\ raised_by' = IF mkdir_ok THEN raised_by ELSE "mkdir"
       ELSE /\ rpc' = "select"
            /\ UNCHANGED <<split_layer, timing, host_times, travel_times,
                           server_times, failed, item, raised_by>>
    /\ UNCHANGED <<total_layers, n_items, performance_records, best_split,
                   saved, aggregated>>
    /\ UNCHANGED nonRunnerVars

\* mutant: the try block starts after the host processing
CaughtAfterHostStage(stage) == stage = "communicate"

\* process_single_image, lines 76 and 100: the try block covers the host
\* processing and the communication, and the handler catches Exception
ItemExceptionCaught(stage) == stage \in {"host", "communicate"}

\* process_single_image: None (here << >>) when a stage raised, or the triple
ProcessSingleImage(outcome) ==
    IF outcome \in ItemStages THEN << >> ELSE << outcome >>

\* test_split_performance, lines 131-141: the next work item is processed and
\* its timings are appended when process_single_image returned them
ProcessItem ==
    /\ rpc = "item"
    /\ item < n_items
    /\ item' = item + 1
    /\ \E outcome \in ItemStages \cup {timing[1]} :
         IF outcome \in ItemStages /\ ~ItemExceptionCaught(outcome)
         THEN /\ rpc' = "raised"
              /\ raised_by' = "item"
              /\ UNCHANGED <<host_times, travel_times, server_times, failed>>
         ELSE LET times == ProcessSingleImage(outcome)
              IN  /\ IF times # << >>
                     THEN /\ host_times' = Append(host_times, times[1][1])
                          /\ travel_times' = Append(travel_times, times[1][2])
                          /\ server_times' = Append(server_times, times[1][3])
                          /\ failed' = failed
                     ELSE /\ failed' = failed \cup {item + 1}
                          /\ UNCHANGED <<host_times, travel_times, server_times>>
                  /\ UNCHANGED <<rpc, raised_by>>
    /\ UNCHANGED <<total_layers, n_items, split_layer, timing,
                   performance_records, best_split, saved, aggregated>>
    /\ UNCHANGED nonRunnerVars

\* mutant: the total leaves out the server time
TotalWithoutServer(hs, ts, ss) ==
    [host |-> Sum(hs), travel |-> Sum(ts), server |-> Sum(ss),
     total |-> FloatAdd(Sum(hs), Sum(ts))]

\* _calculate_total_times, lines 152-155 and 165
CalculateTotalTimes(hs, ts, ss) ==
    [host |-> Sum(hs), travel |-> Sum(ts), server |-> Sum(ss),
     total |-> FloatAdd(FloatAdd(Sum(hs), Sum(ts)), Sum(ss))]

\* test_split_performance, line 143, and run_experiment, line 175: the data
\* loader is exhausted, the sums become the record of the boundary
RecordSplit ==
    /\ rpc = "item"
    /\ item = n_items
    /\ LET times == CalculateTotalTimes(host_times, travel_times, server_times)
       IN  performance_records' =
              Append(performance_records,
                     [split_layer |-> split_layer, host |-> times.host,
                      travel |-> times.travel, server |-> times.server,
                      total |-> times.total])
    /\ aggregated' = Append(aggregated, Len(host_times))
    /\ rpc' = "loop"
    /\ UNCHANGED <<total_layers, n_items, split_layer, item, timing, host_times,
                   travel_times, server_times, failed, best_split, saved,
                   raised_by>>
    /\ UNCHANGED nonRunnerVars

\* mutant: a later record replaces the best one when it is not larger
RECURSIVE MinLastByTotal(_, _)
MinLastByTotal(records, n) ==
    IF n = 1 THEN 1
    ELSE LET best == MinLastByTotal(records, n - 1)
         IN  IF records[n].total <= records[best].total THEN n ELSE best

\* min(records[1..n], key=lambda x: x[4]), as the index of the record: a later
\* record replaces the best one only when its total is smaller
RECURSIVE MinByTotal(_, _)
MinByTotal(records, n) ==
    IF n = 1 THEN 1
    ELSE LET best == MinByTotal(records, n - 1)
         IN  IF records[n].total < records[best].total THEN n ELSE best

\* run_experiment, lines 178-181: min raises ValueError on an empty list
SelectBest ==
    /\ rpc = "select"
    /\ IF performance_records = << >>
       THEN /\ rpc' = "raised"
            /\ raised_by' = "min"
            /\ best_split' = best_split
       ELSE /\ best_split' =
                 << performance_records[
                        MinByTotal(performance_records,
                                   Len(performance_records))].split_layer >>
            /\ rpc' = "save"
            /\ raised_by' = raised_by
    /\ UNCHANGED <<total_layers, n_items, split_layer, item, timing, host_times,
                   travel_times, server_times, failed, performance_records,
                   saved, aggregated>>
    /\ UNCHANGED nonRunnerVars

\* run_experiment, line 184, and save_results: the records are handed over as
\* they are; writing the file may fail
SaveResults ==
    /\ rpc = "save"
    /\ saved' = << performance_records >>
    /\ \E written \in BOOLEAN :
         /\ rpc' = IF written THEN "done" ELSE "raised"
         /\ raised_by' = IF written THEN raised_by ELSE "save"
    /\ UNCHANGED <<total_layers, n_items, split_layer, item, timing, host_times,
                   travel_times, server_times, failed, performance_records,
                   best_split, aggregated>>
    /\ UNCHANGED nonRunnerVars

RunnerNext ==
    \/ RunExperiment
    \/ NextSplit
    \/ ProcessItem
    \/ RecordSplit
    \/ SelectBest
    \/ SaveResults

RunnerSpec == RunnerInit /\ [][RunnerNext]_vars

-----------------------------------------------------------------------------
(* A device of the registry: Device.__init__ and the operations on a device *)

\* what the checks of Device.__init__ would find for an entry of
\* connection_params: the key file has the wrong permissions, from_dict raises
\* (missing field, username, key file), both, or the entry passes
Checks == {"ok", "permissions", "invalid", "both"}
ConnParams == [check : Checks, default : BOOLEAN]

\* the device records: with both fields and 0 .. MaxCreds entries, or lacking
\* a field
DeviceRecords ==
    { [fields |-> f, connection_params |-> cps] :
        f \in {"ok", "no_device_type"},
        cps \in UNION { [1 .. n -> ConnParams] : n \in 0 .. MaxCreds } }
    \cup { [fields |-> "no_connection_params", connection_params |-> << >>] }

\* a device record about to be given to Device.__init__; no host answers yet
DeviceInit ==
    /\ ServerAt("off")
    /\ HostIdle
    /\ StoreIdle
    /\ CodecIdle
    /\ RunnerIdle
    /\ ParamsIdle
    /\ ManagerIdle
    /\ LanIdle
    /\ dpc = "new"
    /\ device_record \in DeviceRecords
    /\ valid_connections = << >>
    /\ connection_params = << >>
    /\ working_cparams = << >>
    /\ checks_made = << >>
    /\ probes = << >>
    /\ reachable_hosts = {}
    /\ ctor_error = "none"
    /\ last_call = "none"
    /\ last_return = "none"

\* mutant: the permissions of the key file are not looked at
KeyPermissionsIgnored(entry) == entry \in ConnParams

\* SSHKeyHandler.check_key_permissions on the key file of an entry
CheckKeyPermissions(entry) == entry.check \in {"ok", "invalid"}

\* SSHConnectionParams.from_dict(entry) returns: the entry has host, user and
\* pkey_fp, the username is valid, the key file exists and loads
FromDictReturns(entry) == entry.check \in {"ok", "permissions"}

\* SSHConnectionParams.from_dict for the i-th entry: the host of the entry
\* (here its position in the record) and its default flag
FromDict(cps, i) == [host |-> i, default |-> cps[i].default]

\* Device.__init__, lines 264-286: the entries that pass the permission check
\* and then from_dict, in the order of the record
RECURSIVE ValidConnections(_, _)
ValidConnections(cps, n) ==
    IF n = 0 THEN << >>
    ELSE IF CheckKeyPermissions(cps[n]) /\ FromDictReturns(cps[n])
         THEN Append(ValidConnections(cps, n - 1), FromDict(cps, n))
         ELSE ValidConnections(cps, n - 1)

\* Device.__init__, lines 264-286: the checks made on the i-th entry, in the
\* order they are made; from_dict is called only after the permission check
\* has passed
EntryChecks(entry, i) ==
    IF CheckKeyPermissions(entry)
    THEN << [entry |-> i, check |-> "permissions", passed |-> TRUE],
            [entry |-> i, check |-> "from_dict",
             passed |-> FromDictReturns(entry)] >>
    ELSE << [entry |-> i, check |-> "permissions", passed |-> FALSE] >>

\* the checks made by the loop over the first n entries
RECURSIVE ChecksMade(_, _)
ChecksMade(cps, n) ==
    IF n = 0 THEN << >>
    ELSE ChecksMade(cps, n - 1) \o EntryChecks(cps[n], n)

\* the sequence s from its last element to its first
Reversed(s) == [i \in 1 .. Len(s) |-> s[Len(s) + 1 - i]]

\* mutant: the ascending sort is reversed, which also reverses the entries
\* with equal keys
SortedAscendingReversed(cps) ==
    Reversed(SelectSeq(cps, LAMBDA cp : ~cp.default)
             \o SelectSeq(cps, LAMBDA cp : cp.default))

\* sorted(valid_connections, key=is_default, reverse=True): a stable sort, the
\* entries with the larger key first
SortedDefaultFirst(cps) ==
    SelectSeq(cps, LAMBDA cp : cp.default)
    \o SelectSeq(cps, LAMBDA cp : ~cp.default)

\* mutant: the device is refused when one of its entries was dropped
SomeConnectionDropped(valid) ==
    Len(valid) < Len(device_record.connection_params)

\* Device.__init__, line 288: `if not valid_connections`
NoValidConnections(valid) == valid = << >>

\* Device.__init__, lines 255-300: the fields are checked, the entries are
\* validated and sorted
ConstructDevice ==
    /\ dpc = "new"
    /\ LET valid == ValidConnections(device_record.connection_params,
                                     Len(device_record.connection_params))
       IN  IF device_record.fields # "ok"
           THEN /\ ctor_error' = "ValueError"
                /\ dpc' = "failed"
                /\ UNCHANGED <<valid_connections, connection_params,
                               checks_made>>
           ELSE /\ valid_connections' = valid
                /\ checks_made' =
                      ChecksMade(device_record.connection_params,
                                 Len(device_record.connection_params))
                /\ IF NoValidConnections(valid)
                   THEN /\ ctor_error' = "SSHError"
                        /\ dpc' = "failed"
                        /\ connection_params' = connection_params
                   ELSE /\ connection_params' = SortedDefaultFirst(valid)
                        /\ dpc' = "probe"
                        /\ ctor_error' = ctor_error
    /\ UNCHANGED <<device_record, working_cparams, probes, reachable_hosts,
                   last_call, last_return>>
    /\ UNCHANGED nonDeviceVars

\* LAN.is_host_reachable: the connection to the host is made or not
IsHostReachable(cp) == cp.host \in reachable_hosts

\* mutant: the search goes on after a probe has succeeded
LastReachableBound(cp, reached, is_last) ==
    [bound |-> IF reached THEN << cp >> ELSE working_cparams,
     done |-> is_last]

\* next((cp for cp in ... if cp.is_host_reachable()), None) after the probe of
\* cp: what is bound, and whether the search is over
FirstReachableBound(cp, reached, is_last) ==
    [bound |-> IF reached THEN << cp >> ELSE << >>,
     done |-> reached \/ is_last]

\* Device.__init__, lines 303-305: the next connection is probed
ProbeNext ==
    /\ dpc = "probe"
    /\ LET i == Len(probes) + 1
           cp == connection_params[i]
           reached == IsHostReachable(cp)
           found == FirstReachableBound(cp, reached, i = Len(connection_params))
       IN  /\ probes' = Append(probes, [cp |-> cp, reached |-> reached])
           /\ working_cparams' = found.bound
           /\ dpc' = IF found.done THEN "ready" ELSE "probe"
    /\ UNCHANGED <<device_record, valid_connections, connection_params,
                   checks_made, reachable_hosts, ctor_error, last_call,
                   last_return>>
    /\ UNCHANGED nonDeviceVars

\* the network: a host of the device starts or stops accepting connections
NetworkChanges ==
    /\ dpc \in {"probe", "ready"}
    /\ \E i \in 1 .. Len(connection_params) :
         LET h == connection_params[i].host
         IN  reachable_hosts' = IF h \in reachable_hosts
                                THEN reachable_hosts \ {h}
                                ELSE reachable_hosts \cup {h}
    /\ UNCHANGED <<dpc, device_record, valid_connections, connection_params,
                   working_cparams, checks_made, probes, ctor_error, last_call,
                   last_return>>
    /\ UNCHANGED nonDeviceVars

\* an operation on the constructed device returns or raises; it changes
\* nothing of the device
Returns(call, value) ==
    /\ dpc = "ready"
    /\ last_call' = call
    /\ last_return' = value
    /\ UNCHANGED <<dpc, device_record, valid_connections, connection_params,
                   checks_made, probes, reachable_hosts, ctor_error>>
    /\ UNCHANGED nonDeviceVars

\* mutant: is_reachable probes the connections again and binds the first
\* reachable one
IsReachableProbesAgain ==
    /\ working_cparams' =
          IF \E i \in 1 .. Len(connection_params) :
                IsHostReachable(connection_params[i])
          THEN << connection_params[
                     CHOOSE i \in 1 .. Len(connection_params) :
                        /\ IsHostReachable(connection_params[i])
                        /\ \A j \in 1 .. i - 1 :
                              ~IsHostReachable(connection_params[j])] >>
          ELSE << >>
    /\ Returns("is_reachable",
               IF working_cparams' # << >> THEN "True" ELSE "False")

\* Device.is_reachable
IsReachable ==
    /\ working_cparams' = working_cparams
    /\ Returns("is_reachable",
               IF working_cparams # << >> THEN "True" ELSE "False")

\* Device.get_host, get_port, get_username, get_private_key_path: an attribute
\* of self.working_cparams, which is None on a device that is not bound
GetHost ==
    /\ working_cparams' = working_cparams
    /\ Returns("get_host",
               IF working_cparams # << >> THEN "host" ELSE "AttributeError")

\* Device.get_attribute
GetAttribute ==
    /\ working_cparams' = working_cparams
    /\ \E attribute \in {"host", "other"} :
         Returns("get_attribute",
                 IF working_cparams # << >> /\ attribute = "host"
                 THEN "host" ELSE "None")

\* Device.serialize
Serialize ==
    /\ working_cparams' = working_cparams
    /\ Returns("serialize", "connection_params")

\* Device.execute_remote_command: SSHError on a device that is not bound; or
\* the SSH client is created (which may raise) and the command is run
ExecuteRemoteCommand ==
    /\ working_cparams' = working_cparams
    /\ IF working_cparams = << >>
       THEN Returns("execute_remote_command", "SSHError")
       ELSE \E outcome \in {"SSHError", "result"} :
              Returns("execute_remote_command", outcome)

\* Device.transfer_files: SSHError on a device that is not bound; or
\* self.create_ssh_client is looked up, which Device does not define
TransferFiles ==
    /\ working_cparams' = working_cparams
    /\ Returns("transfer_files",
               IF working_cparams = << >> THEN "SSHError" ELSE "AttributeError")

\* DeviceManager.get_devices for this device
GetDevices ==
    /\ working_cparams' = working_cparams
    /\ \E available_only \in BOOLEAN, type_matches \in BOOLEAN :
         Returns("get_devices",
                 IF (~available_only \/ working_cparams # << >>) /\ type_matches
                 THEN "device" ELSE "empty")

\* DeviceManager.get_device_by_type for this device
GetDeviceByType ==
    /\ working_cparams' = working_cparams
    /\ \E type_matches \in BOOLEAN :
         Returns("get_device_by_type", IF type_matches THEN "device" ELSE "None")

DeviceNext ==
    \/ ConstructDevice
    \/ ProbeNext
    \/ NetworkChanges
    \/ IsReachable
    \/ GetHost
    \/ GetAttribute
    \/ Serialize
    \/ ExecuteRemoteCommand
    \/ TransferFiles
    \/ GetDevices
    \/ GetDeviceByType

DeviceSpec == DeviceInit /\ [][DeviceNext]_vars

-----------------------------------------------------------------------------
(* Connection parameters: SSHConnectionParams.from_dict and __init__ *)

\* a string is the sequence of its characters
Whitespace == {" ", "\t", "\n"}
Spaces(k) == [i \in 1 .. k |-> " "]
Letters(n) == [i \in 1 .. n |-> "a"]
\* a name with whitespace inside
Spaced(n) == [i \in 1 .. n |-> IF i = 2 THEN " " ELSE "a"]

\* the usernames without surrounding whitespace
Cores ==
    {Letters(n) : n \in 0 .. MaxNameLen} \cup {Spaced(n) : n \in 3 .. MaxNameLen}

\* what _set_rsa_key finds at the key path
KeyFiles == {"loads", "missing", "unloadable"}

\* the dictionaries given to from_dict: the "user" entry is `core` between
\* `lead` and `trail` whitespace characters, or is absent
Sources ==
    [has_user : BOOLEAN, lead : 0 .. MaxPad, core : Cores, trail : 0 .. MaxPad,
     pkey_fp : KeyFiles]

\* source["user"]
User(src) == Spaces(src.lead) \o src.core \o Spaces(src.trail)

ParamsInit ==
    /\ ServerAt("off")
    /\ HostIdle
    /\ StoreIdle
    /\ CodecIdle
    /\ RunnerIdle
    /\ DeviceIdle
    /\ ManagerIdle
    /\ LanIdle
    /\ ppc = "new"
    /\ source \in Sources
    /\ username = << >>
    /\ private_key = FALSE
    /\ params_error = "none"

\* str.strip(): the string without its leading and trailing whitespace
RECURSIVE LStrip(_)
LStrip(s) ==
    IF s = << >> THEN s
    ELSE IF s[1] \in Whitespace THEN LStrip(Tail(s)) ELSE s

RECURSIVE RStrip(_)
RStrip(s) ==
    IF s = << >> THEN s
    ELSE IF s[Len(s)] \in Whitespace THEN RStrip(SubSeq(s, 1, Len(s) - 1)) ELSE s

Strip(s) == RStrip(LStrip(s))

\* mutant: a username of 32 characters is accepted
ValidLengthInclusive(clean_username) ==
    0 < Len(clean_username) /\ Len(clean_username) <= UsernameLimit

\* _set_username, line 166: `0 < len(clean_username) < 32`
ValidLength(clean_username) ==
    0 < Len(clean_username) /\ Len(clean_username) < UsernameLimit

\* from_dict, lines 150-154: a missing required field raises ValueError,
\* otherwise __init__ is entered and sets the host
ParamsFromDict ==
    /\ ppc = "new"
    /\ IF source.has_user
       THEN ppc' = "username" /\ params_error' = params_error
       ELSE ppc' = "raised" /\ params_error' = "missing_fields"
    /\ UNCHANGED <<source, username, private_key>>
    /\ UNCHANGED nonParamsVars

\* __init__, line 119: _set_username
SetUsername ==
    /\ ppc = "username"
    /\ LET clean_username == Strip(User(source))
       IN  IF ValidLength(clean_username)
           THEN /\ username' = << clean_username >>
                /\ ppc' = "rsa_key"
                /\ params_error' = params_error
           ELSE /\ username' = username
                /\ ppc' = "raised"
                /\ params_error' = "username"
    /\ UNCHANGED <<source, private_key>>
    /\ UNCHANGED nonParamsVars

\* __init__, lines 120-124: _set_rsa_key loads the key, or raises ValueError
\* when the file is missing or does not load; then the ports and the default
\* flag are set
SetRsaKey ==
    /\ ppc = "rsa_key"
    /\ IF source.pkey_fp = "loads"
       THEN /\ private_key' = TRUE
            /\ ppc' = "done"
            /\ params_error' = params_error
       ELSE /\ private_key' = private_key
            /\ ppc' = "raised"
            /\ params_error' = "rsa_key"
    /\ UNCHANGED <<source, username>>
    /\ UNCHANGED nonParamsVars

ParamsNext ==
    \/ ParamsFromDict
    \/ SetUsername
    \/ SetRsaKey

ParamsSpec == ParamsInit /\ [][ParamsNext]_vars

-----------------------------------------------------------------------------

(* The device manager: DeviceManager.__init__, _load_devices, the lookups and
   the operations on every matching device *)

DeviceTypes == {"SERVER", "PARTICIPANT"}

\* the connection_params of the listed devices: one entry that passes, one
\* whose key file has the wrong permissions, one that fails the validation
\* followed by one that passes
OneValid == << [check |-> "ok", default |-> TRUE] >>
BadPermissions == << [check |-> "permissions", default |-> TRUE] >>
InvalidThenValid ==
    << [check |-> "invalid", default |-> TRUE],
       [check |-> "ok", default |-> FALSE] >>

\* the entries of the "devices" list of the configuration file
ListedDevices ==
    { [fields |-> "ok", device_type |-> t, connection_params |-> c] :
        t \in DeviceTypes, c \in {OneValid, BadPermissions, InvalidThenValid} }
    \cup { [fields |-> "no_device_type", device_type |-> "none",
            connection_params |-> OneValid],
           [fields |-> "no_connection_params", device_type |-> "SERVER",
            connection_params |-> << >>] }

\* the configuration files: a mapping with 0 .. MaxDevices listed devices, no
\* file, or a file that yaml.safe_load rejects
Datafiles ==
    { [status |-> "ok", devices |-> ds] :
        ds \in UNION { [1 .. n -> ListedDevices] : n \in 0 .. MaxDevices } }
    \cup { [status |-> st, devices |-> << >>] : st \in {"missing", "unparsable"} }

\* DeviceManager(datafile_path) is about to be constructed
ManagerInit ==
    /\ ServerAt("off")
    /\ HostIdle
    /\ StoreIdle
    /\ CodecIdle
    /\ RunnerIdle
    /\ DeviceIdle
    /\ ParamsIdle
    /\ LanIdle
    /\ ManagerAt("new")
    /\ datafile \in Datafiles
    /\ pkeys_dir \in {"ok", "missing", "bad_permissions"}
    /\ is_windows \in BOOLEAN

\* the manager stops with an exception
ManagerRaises(error) ==
    /\ mpc' = "failed"
    /\ manager_error' = error

\* DeviceManager.__init__, lines 407-432: the file and the key directory are
\* looked at, the permissions of the directory only off Windows
ManagerInitChecks ==
    /\ mpc = "new"
    /\ IF datafile.status = "missing" \/ pkeys_dir = "missing"
       THEN ManagerRaises("FileNotFoundError")
       ELSE IF ~is_windows /\ pkeys_dir = "bad_permissions"
       THEN ManagerRaises("SSHError")
       ELSE mpc' = "open" /\ manager_error' = manager_error
    /\ UNCHANGED <<datafile, pkeys_dir, is_windows, load_pos, devices, m_call,
                   m_args, fan_devices, attempted, results, m_return>>
    /\ UNCHANGED nonManagerVars

\* _load_devices, lines 441-454 and 470-472: the file is parsed and the key
\* paths are rewritten; an exception is logged and raised again
LoadDevicesOpen ==
    /\ mpc = "open"
    /\ IF datafile.status = "unparsable"
       THEN ManagerRaises("YAMLError")
       ELSE mpc' = "loading" /\ manager_error' = manager_error
    /\ UNCHANGED <<datafile, pkeys_dir, is_windows, load_pos, devices, m_call,
                   m_args, fan_devices, attempted, results, m_return>>
    /\ UNCHANGED nonManagerVars

\* Device(record): the exception Device.__init__ raises, "none" when the
\* device is constructed
DeviceError(record) ==
    IF record.fields # "ok" THEN "ValueError"
    ELSE IF NoValidConnections(
                ValidConnections(record.connection_params,
                                 Len(record.connection_params)))
    THEN "SSHError"
    ELSE "none"

\* mutant: no exception of Device(record) is caught in the loop
NotCaughtInLoad(error) == error # error

\* _load_devices, line 459: `except SSHError`
CaughtInLoad(error) == error = "SSHError"

\* _load_devices, lines 455-461 and 470-472: the next listed device is
\* constructed (its probes bind it to a host or not) and appended; an SSHError
\* skips it, any other exception leaves _load_devices and __init__
LoadNextDevice ==
    /\ mpc = "loading"
    /\ load_pos < Len(datafile.devices)
    /\ LET record == datafile.devices[load_pos + 1]
           error == DeviceError(record)
       IN  IF error = "none"
           THEN /\ \E bound \in BOOLEAN :
                     devices' =
                        Append(devices,
                               [device_type |-> record.device_type,
                                host |-> load_pos + 1, bound |-> bound])
                /\ load_pos' = load_pos + 1
                /\ UNCHANGED <<mpc, manager_error>>
           ELSE IF CaughtInLoad(error)
           THEN /\ load_pos' = load_pos + 1
                /\ UNCHANGED <<mpc, manager_error, devices>>
           ELSE /\ ManagerRaises(error)
                /\ UNCHANGED <<load_pos, devices>>
    /\ UNCHANGED <<datafile, pkeys_dir, is_windows, m_call, m_args,
                   fan_devices, attempted, results, m_return>>
    /\ UNCHANGED nonManagerVars

\* _load_devices, lines 463-468, and __init__, line 435: with or without
\* devices the manager is constructed
LoadDevicesDone ==
    /\ mpc = "loading"
    /\ load_pos = Len(datafile.devices)
    /\ mpc' = "ready"
    /\ UNCHANGED <<datafile, pkeys_dir, is_windows, load_pos, devices,
                   manager_error, m_call, m_args, fan_devices, attempted,
                   results, m_return>>
    /\ UNCHANGED nonManagerVars

\* the filter of get_devices; device_type "None" is no filter
Matches(device, available_only, device_type) ==
    /\ ~available_only \/ device.bound
    /\ device_type = "None" \/ device.device_type = device_type

\* get_devices: the list comprehension over self.devices
FilteredDevices(available_only, device_type) ==
    SelectSeq(devices, LAMBDA d : Matches(d, available_only, device_type))

\* mutant: a reachable device of the type is preferred
FirstAvailableOfType(device_type) ==
    IF FilteredDevices(TRUE, device_type) # << >>
    THEN << FilteredDevices(TRUE, device_type)[1] >>
    ELSE IF FilteredDevices(FALSE, device_type) # << >>
    THEN << FilteredDevices(FALSE, device_type)[1] >>
    ELSE << >>

\* get_device_by_type: next(generator, None), << >> for None
FirstOfType(device_type) ==
    IF \E i \in 1 .. Len(devices) : devices[i].device_type = device_type
    THEN << devices[CHOOSE i \in 1 .. Len(devices) :
                       /\ devices[i].device_type = device_type
                       /\ \A j \in 1 .. i - 1 :
                             devices[j].device_type # device_type] >>
    ELSE << >>

\* an operation of the constructed manager that returns at once
Called(call, args, value) ==
    /\ mpc = "ready"
    /\ m_call' = call
    /\ m_args' = args
    /\ m_return' = [raised |-> "none", value |-> value]
    /\ UNCHANGED <<mpc, datafile, pkeys_dir, is_windows, load_pos, devices,
                   manager_error, fan_devices, attempted, results>>
    /\ UNCHANGED nonManagerVars

\* DeviceManager.get_devices
ManagerGetDevices ==
    \E available_only \in BOOLEAN, device_type \in DeviceTypes \cup {"None"} :
       Called("get_devices",
              [available_only |-> available_only, device_type |-> device_type],
              FilteredDevices(available_only, device_type))

\* DeviceManager.get_device_by_type
ManagerGetDeviceByType ==
    \E device_type \in DeviceTypes :
       Called("get_device_by_type",
              [available_only |-> FALSE, device_type |-> device_type],
              FirstOfType(device_type))

\* lines 533-535 and 553-555: the available devices of the type are taken
StartFanOut(call) ==
    /\ mpc = "ready"
    /\ \E device_type \in DeviceTypes \cup {"None"} :
         /\ m_args' = [available_only |-> TRUE, device_type |-> device_type]
         /\ fan_devices' = FilteredDevices(TRUE, device_type)
    /\ mpc' = "fanout"
    /\ m_call' = call
    /\ attempted' = << >>
    /\ results' = << >>
    /\ m_return' = NoReturn
    /\ UNCHANGED <<datafile, pkeys_dir, is_windows, load_pos, devices,
                   manager_error>>
    /\ UNCHANGED nonManagerVars

ExecuteCommandOnDevices == StartFanOut("execute_command_on_devices")

TransferToDevices == StartFanOut("transfer_to_devices")

\* create_ssh_client and SSHSession.execute_command of remote_connection.py:
\* the result of the command, or an SSHError
RemoteOutcomes == {"result", "SSHError"}

\* Device.execute_remote_command, lines 356-371
RemoteCommandOutcomes(device) ==
    IF device.bound THEN RemoteOutcomes ELSE {"SSHError"}

\* Device.transfer_files, lines 373-384: on a bound device the attribute
\* self.create_ssh_client is looked up, which Device does not have
TransferOutcomes(device) ==
    IF device.bound THEN {"AttributeError"} ELSE {"SSHError"}

\* results[host] = value
Put(map, host, value) ==
    [h \in DOMAIN map \cup {host} |-> IF h = host THEN value ELSE map[h]]

\* mutant: the loop is left with what it has after the first SSHError
StopsAtFirstError(outcome) ==
    IF outcome = "SSHError" THEN "stop" ELSE "continue"

\* lines 541 and 562: `except SSHError` inside the loop; any other exception
\* leaves the operation
AfterDevice(outcome) ==
    IF outcome \in {"result", "SSHError"} THEN "continue" ELSE "raise"

\* the next device of the loop is called: its result or error is stored and
\* the loop goes on, or the exception leaves the operation
FanOutStep(call, outcome, stored) ==
    /\ mpc = "fanout"
    /\ m_call = call
    /\ Len(attempted) < Len(fan_devices)
    /\ LET device == fan_devices[Len(attempted) + 1]
           next == AfterDevice(outcome)
       IN  /\ attempted' =
                 Append(attempted, [host |-> device.host, outcome |-> outcome])
           /\ results' = IF next = "raise" THEN results
                         ELSE Put(results, device.host, stored)
           /\ m_return' = IF next = "continue" THEN m_return
                          ELSE IF next = "stop"
                          THEN [raised |-> "none", value |-> results']
                          ELSE [raised |-> outcome, value |-> << >>]
           /\ mpc' = IF next = "continue" THEN mpc ELSE "ready"
    /\ UNCHANGED <<datafile, pkeys_dir, is_windows, load_pos, devices,
                   manager_error, m_call, m_args, fan_devices>>
    /\ UNCHANGED nonManagerVars

\* execute_command_on_devices, lines 537-543
ExecuteOnNextDevice ==
    /\ m_call = "execute_command_on_devices"
    /\ Len(attempted) < Len(fan_devices)
    /\ \E outcome \in RemoteCommandOutcomes(fan_devices[Len(attempted) + 1]) :
         FanOutStep("execute_command_on_devices", outcome,
                    IF outcome = "result" THEN "output" ELSE "error")

\* transfer_to_devices, lines 557-564
TransferToNextDevice ==
    /\ m_call = "transfer_to_devices"
    /\ Len(attempted) < Len(fan_devices)
    /\ \E outcome \in TransferOutcomes(fan_devices[Len(attempted) + 1]) :
         FanOutStep("transfer_to_devices", outcome, outcome = "result")

\* lines 545 and 566: `return results`
FanOutReturns ==
    /\ mpc = "fanout"
    /\ Len(attempted) = Len(fan_devices)
    /\ mpc' = "ready"
    /\ m_return' = [raised |-> "none", value |-> results]
    /\ UNCHANGED <<datafile, pkeys_dir, is_windows, load_pos, devices,
                   manager_error, m_call, m_args, fan_devices, attempted,
                   results>>
    /\ UNCHANGED nonManagerVars

\* self.connection_params of a device of the registry: the entries of its
\* record that passed the checks, the default entries first
ConnectionParamsOf(device) ==
    LET record == datafile.devices[device.host]
    IN  SortedDefaultFirst(ValidConnections(record.connection_params,
                                            Len(record.connection_params)))

\* SSHConnectionParams.to_dict: host, user, pkey_fp, port and ssh_port; the
\* default flag is not among the keys
ToDict(cp) == [host |-> cp.host]

\* Device.serialize: the device type, and the entries as dictionaries
SerializeDevice(device) ==
    << device.device_type,
       [connection_params |->
           [i \in 1 .. Len(ConnectionParamsOf(device)) |->
               ToDict(ConnectionParamsOf(device)[i])]] >>

\* _save_devices, lines 519-522: the dictionary {name: details for name,
\* details in [device.serialize() ...]}: one key per device type, and of the
\* devices of a type the last one
SerializedDevices ==
    [name \in {devices[i].device_type : i \in 1 .. Len(devices)} |->
        LET last == CHOOSE i \in 1 .. Len(devices) :
                       /\ devices[i].device_type = name
                       /\ \A j \in i + 1 .. Len(devices) :
                             devices[j].device_type # name
        IN  SerializeDevice(devices[last])[2]]

\* _save_devices: the mapping is written to the device file
SaveDevices ==
    /\ mpc = "ready"
    /\ spc = "idle"
    /\ saved_file' = SerializedDevices
    /\ spc' = "saved"
    /\ reloaded' = reloaded
    /\ UNCHANGED nonStoreVars

\* data.get("devices", []) of the parsed file
ListedInFile(data) == IF "devices" \in DOMAIN data THEN data["devices"] ELSE << >>

\* SSHConnectionParams.from_dict of a saved entry: is_default is
\* source.get("default", True)
FromSavedDict(entry) ==
    [host |-> entry.host,
     default |-> IF "default" \in DOMAIN entry THEN entry["default"] ELSE TRUE]

\* DeviceManager(datafile_path) on the file that was written: _load_devices,
\* lines 441-461, makes a device of every record listed under "devices"
ReloadDevices ==
    /\ spc = "saved"
    /\ reloaded' =
          LET listed == ListedInFile(saved_file)
          IN  [i \in 1 .. Len(listed) |->
                  [device_type |-> listed[i].device_type,
                   connection_params |->
                       SortedDefaultFirst(
                           [k \in 1 .. Len(listed[i].connection_params) |->
                               FromSavedDict(listed[i].connection_params[k])])]]
    /\ spc' = "reloaded"
    /\ saved_file' = saved_file
    /\ UNCHANGED nonStoreVars

ManagerNext ==
    \/ ManagerInitChecks
    \/ LoadDevicesOpen
    \/ LoadNextDevice
    \/ LoadDevicesDone
    \/ ManagerGetDevices
    \/ ManagerGetDeviceByType
    \/ ExecuteCommandOnDevices
    \/ TransferToDevices
    \/ ExecuteOnNextDevice
    \/ TransferToNextDevice
    \/ FanOutReturns
    \/ SaveDevices
    \/ ReloadDevices

ManagerSpec == ManagerInit /\ [][ManagerNext]_vars

-----------------------------------------------------------------------------

(* LAN.get_available_hosts: the main thread and the worker threads of its
   ThreadPoolExecutor *)

\* hosts are numbered; the first two stand for the hosts of 192.168.1.0/24
LOCAL_CIDR_BLOCK == << 1, 2 >>

\* the lists of hosts a caller gives: distinct hosts, in ascending order
RECURSIVE Ascending(_, _)
Ascending(S, n) ==
    IF n = 0 THEN << >>
    ELSE IF n \in S THEN Append(Ascending(S, n - 1), n)
    ELSE Ascending(S, n - 1)

HostLists == { Ascending(S, MaxHosts) : S \in SUBSET (1 .. MaxHosts) }

IdleWorker == [state |-> "idle", host |-> 0]

\* get_available_hosts(hosts, port, timeout, max_threads) is about to be called
LanInit ==
    /\ ServerAt("off")
    /\ HostIdle
    /\ StoreIdle
    /\ CodecIdle
    /\ RunnerIdle
    /\ DeviceIdle
    /\ ParamsIdle
    /\ ManagerIdle
    /\ lpc = "call"
    /\ hosts \in HostLists
    /\ max_threads \in 1 .. MaxThreads
    /\ hosts_to_check = << >>
    /\ work_queue = << >>
    /\ workers = << >>
    /\ lan_probes = << >>
    /\ open_sockets = {}
    /\ available_hosts = << >>
    /\ available = << >>

\* line 68: `hosts or cls.LOCAL_CIDR_BLOCK`
HostsToCheck(given) == IF given = << >> THEN LOCAL_CIDR_BLOCK ELSE given

\* lines 68-79: the queue and the executor are made, and executor.map submits
\* one call of check_host per host, in the order of the list
GetAvailableHosts ==
    /\ lpc = "call"
    /\ lpc' = "running"
    /\ hosts_to_check' = HostsToCheck(hosts)
    /\ work_queue' = hosts_to_check'
    /\ workers' = [w \in 1 .. max_threads |-> IdleWorker]
    /\ UNCHANGED <<hosts, max_threads, lan_probes, available_hosts, available>>
    /\ UNCHANGED open_sockets
    /\ UNCHANGED nonLanVars

\* a worker thread takes the next call of check_host from the executor
WorkerTakes(w) ==
    /\ lpc = "running"
    /\ workers[w].state = "idle"
    /\ work_queue # << >>
    /\ workers' = [workers EXCEPT ![w] = [state |-> "probing",
                                           host |-> Head(work_queue)]]
    /\ work_queue' = Tail(work_queue)
    /\ UNCHANGED <<lpc, hosts, max_threads, hosts_to_check, lan_probes,
                   available_hosts, available>>
    /\ UNCHANGED open_sockets
    /\ UNCHANGED nonLanVars

\* what socket.create_connection meets
ConnectOutcomes == {"connected", "refused", "timeout", "unreachable", "dns_failure"}

\* the exception socket.create_connection raises
ConnectError(outcome) ==
    CASE outcome = "refused" -> "ConnectionRefusedError"
      [] outcome = "timeout" -> "TimeoutError"
      [] outcome = "unreachable" -> "OSError"
      [] outcome = "dns_failure" -> "gaierror"

\* mutant: only the subclasses of ConnectionError are caught
CatchesConnectionErrors(error) == error \in {"ConnectionRefusedError"}

\* is_host_reachable, line 53: `except Exception`; the errors of a connection
\* attempt are subclasses of OSError
CatchesException(error) ==
    error \in {"ConnectionRefusedError", "TimeoutError", "OSError", "gaierror"}

\* check_host, line 73, and is_host_reachable, lines 49-55: the connection is
\* attempted; a connection made leaves the worker inside the `with` block
\* with the socket open, an exception caught returns False and check_host is
\* over, an exception not caught ends check_host
WorkerProbes(w) ==
    /\ lpc \in {"running", "returned"}
    /\ workers[w].state = "probing"
    /\ \E outcome \in ConnectOutcomes :
         IF outcome = "connected"
         THEN /\ workers' = [workers EXCEPT ![w].state = "connected"]
              /\ open_sockets' = open_sockets \cup {w}
              /\ lan_probes' = lan_probes
         ELSE /\ workers' = [workers EXCEPT ![w] = IdleWorker]
              /\ open_sockets' = open_sockets
              /\ lan_probes' =
                    Append(lan_probes,
                           [host |-> workers[w].host, outcome |-> outcome,
                            reached |-> FALSE,
                            raised |-> IF CatchesException(ConnectError(outcome))
                                       THEN "none" ELSE ConnectError(outcome)])
    /\ UNCHANGED <<lpc, hosts, max_threads, hosts_to_check, work_queue,
                   available_hosts, available>>
    /\ UNCHANGED nonLanVars

\* is_host_reachable, lines 50-52: `return True` leaves the `with` block,
\* which closes the socket
WorkerReturnsTrue(w) ==
    /\ lpc \in {"running", "returned"}
    /\ workers[w].state = "connected"
    /\ open_sockets' = open_sockets \ {w}
    /\ lan_probes' = Append(lan_probes,
                            [host |-> workers[w].host, outcome |-> "connected",
                             reached |-> TRUE, raised |-> "none"])
    /\ workers' = [workers EXCEPT ![w].state = "put"]
    /\ UNCHANGED <<lpc, hosts, max_threads, hosts_to_check, work_queue,
                   available_hosts, available>>
    /\ UNCHANGED nonLanVars

\* check_host, line 74: Queue.put appends under the lock of the queue
WorkerPuts(w) ==
    /\ lpc \in {"running", "returned"}
    /\ workers[w].state = "put"
    /\ available_hosts' = Append(available_hosts, workers[w].host)
    /\ workers' = [workers EXCEPT ![w] = IdleWorker]
    /\ UNCHANGED <<lpc, hosts, max_threads, hosts_to_check, work_queue,
                   lan_probes, available>>
    /\ UNCHANGED open_sockets
    /\ UNCHANGED nonLanVars

\* mutant: the executor is left as soon as every call has been started
AllCallsStarted == work_queue = << >>

\* line 78, leaving the `with` block: shutdown(wait=True) returns when every
\* call submitted has finished
ExecutorJoined ==
    /\ work_queue = << >>
    /\ \A w \in 1 .. max_threads : workers[w].state = "idle"

\* lines 78-83: the main thread leaves the `with` block and returns the
\* content of the queue
ReturnAvailable ==
    /\ lpc = "running"
    /\ ExecutorJoined
    /\ lpc' = "returned"
    /\ available' = available_hosts
    /\ UNCHANGED <<hosts, max_threads, hosts_to_check, work_queue, workers,
                   lan_probes, available_hosts>>
    /\ UNCHANGED open_sockets
    /\ UNCHANGED nonLanVars

LanNext ==
    \/ GetAvailableHosts
    \/ \E w \in 1 .. max_threads : WorkerTakes(w)
    \/ \E w \in 1 .. max_threads : WorkerProbes(w)
    \/ \E w \in 1 .. max_threads : WorkerReturnsTrue(w)
    \/ \E w \in 1 .. max_threads : WorkerPuts(w)
    \/ ReturnAvailable

LanSpec == LanInit /\ [][LanNext]_vars

-----------------------------------------------------------------------------

(* The 4-byte length fields, over their whole range *)

\* A length of 0 .. 2^32 - 1 is held as << high, low >>, its high and low 16
\* bits, so that the upper half of the range stays within the integers of
\* the model checker.
Limbs == {0, 1, 255, 256, 32767, 32768, 65535}
Lengths == Limbs \X Limbs

\* mutant: the bytes are written least significant first
ToBytesLittleWide(n) ==
    << n[2] % 256, n[2] \div 256, n[1] % 256, n[1] \div 256 >>

\* result_size.to_bytes(LENGTH_PREFIX_SIZE, "big")
ToBytesWide(n) ==
    << n[1] \div 256, n[1] % 256, n[2] \div 256, n[2] % 256 >>

\* int.from_bytes(s, "big") of at most 4 bytes
FromBytesWide(s) ==
    LET b == [i \in 1 .. (LENGTH_PREFIX_SIZE - Len(s)) |-> 0] \o s
    IN  << 256 * b[1] + b[2], 256 * b[3] + b[4] >>

CodecInit ==
    /\ ServerAt("off")
    /\ HostIdle
    /\ StoreIdle
    /\ RunnerIdle
    /\ DeviceIdle
    /\ ParamsIdle
    /\ ManagerIdle
    /\ LanIdle
    /\ cpc = "start"
    /\ length \in Lengths
    /\ field = << >>
    /\ decoded = << 0, 0 >>

\* _send_result, line 418: the length is written as a 4-byte field
EncodeLength ==
    /\ cpc = "start"
    /\ field' = ToBytesWide(length)
    /\ cpc' = "encoded"
    /\ UNCHANGED <<length, decoded>>
    /\ UNCHANGED nonCodecVars

\* _receive_config, line 293, and handle_connection, lines 371-372: the 4
\* bytes are read back as an integer
DecodeLength ==
    /\ cpc = "encoded"
    /\ decoded' = FromBytesWide(field)
    /\ cpc' = "decoded"
    /\ UNCHANGED <<length, field>>
    /\ UNCHANGED nonCodecVars

CodecNext == EncodeLength \/ DecodeLength

CodecSpec == CodecInit /\ [][CodecNext]_vars

-----------------------------------------------------------------------------

(* ExperimentHost.__init__ (src/host.py): _verify_devices, _setup_experiment *)

\* the configured experiment types: "auto" also stands for no type at all
ExperimentTypes == {"auto", "local", "networked", "distributed"}

\* the devices a DeviceManager may hold: not bound (valid credentials, no
\* host reached), or bound to the host of a credential, which is None when
\* the device file says `host: null` (a connection to None reaches the local
\* machine), with or without an experiment port
LoadedDevices ==
    { [device_type |-> t, bound |-> FALSE, host |-> "None", port |-> "None"] :
        t \in DeviceTypes }
    \cup { [device_type |-> t, bound |-> TRUE, host |-> h, port |-> p] :
             t \in DeviceTypes, h \in {"10.0.0.2", "None"}, p \in {"None", "9000"} }

NoHostError == [exc |-> "none", at |-> "none"]

\* DeviceManager() has returned; __init__ is about to call _verify_devices
HostInit ==
    /\ ServerAt("off")
    /\ RunnerIdle
    /\ DeviceIdle
    /\ ParamsIdle
    /\ ManagerIdle
    /\ LanIdle
    /\ CodecIdle
    /\ StoreIdle
    /\ hpc = "new"
    /\ host_devices \in UNION { [1 .. n -> LoadedDevices] : n \in 0 .. MaxDevices }
    /\ exp_type \in ExperimentTypes
    /\ dataset \in {"ok", "no_name", "load_fails"}
    /\ host_experiment = << >>
    /\ host_error = NoHostError

\* Device.get_host and Device.get_port raise on a device that is not bound
\* (working_cparams is None)
GetterRaises(device) == ~device.bound

\* device_mgr.get_device_by_type(SERVER): the first SERVER device, << >> for
\* None
ServerDevice ==
    LET found == SelectSeq(host_devices, LAMBDA d : d.device_type = "SERVER")
    IN  IF found = << >> THEN << >> ELSE << found[1] >>

\* the exception leaves __init__
HostRaises(exc, at) ==
    /\ hpc' = "raised"
    /\ host_error' = [exc |-> exc, at |-> at]

\* _verify_devices: every device is logged with get_host(), get_port() and
\* is_reachable(), then the SERVER device once more
VerifyDevices ==
    /\ hpc = "new"
    /\ IF \E i \in 1 .. Len(host_devices) : GetterRaises(host_devices[i])
       THEN HostRaises("AttributeError", "_verify_devices")
       ELSE hpc' = "verified" /\ host_error' = host_error
    /\ UNCHANGED <<host_devices, exp_type, dataset, host_experiment>>
    /\ UNCHANGED nonHostVars

\* mutant: "auto" never selects the networked mode
AutoIsLocal(type, found) == IF type = "auto" THEN "local" ELSE type

\* _setup_experiment, lines 210-213: "auto" is networked with a SERVER device
\* and local without
SelectedType(type, found) ==
    IF type = "auto" THEN (IF found THEN "networked" ELSE "local") ELSE type

\* _setup_experiment, lines 196-201: the port of the device, or DEFAULT_PORT
PortOrDefault(port) == IF port = "None" THEN "DEFAULT_PORT" ELSE port

\* _setup_experiment, then _setup_dataloader: the experiment is made for the
\* selected type, then the data loader is set up and attached
SetupExperiment ==
    /\ hpc = "verified"
    /\ LET found == ServerDevice # << >>
           type == SelectedType(exp_type, found)
       IN  IF found /\ GetterRaises(ServerDevice[1])
           THEN /\ HostRaises("AttributeError", "_setup_experiment")
                /\ host_experiment' = host_experiment
           ELSE LET hst == IF found THEN ServerDevice[1].host ELSE "None"
                    port == IF found THEN PortOrDefault(ServerDevice[1].port)
                                     ELSE "None"
                    loaded == IF dataset = "ok" THEN <<"ready", NoHostError>>
                              ELSE IF dataset = "no_name"
                              THEN <<"raised", [exc |-> "ValueError",
                                                at |-> "_setup_dataloader"]>>
                              ELSE <<"raised", [exc |-> "Exception",
                                                at |-> "_setup_dataloader"]>>
                IN  IF type = "local" \/ ~found
                    THEN /\ host_experiment' =
                               << [mode |-> "local", host |-> hst, port |-> port] >>
                         /\ hpc' = loaded[1]
                         /\ host_error' = loaded[2]
                    ELSE IF type = "networked"
                    THEN IF hst = "None"
                         THEN /\ HostRaises("ValueError", "no_host")
                              /\ host_experiment' = host_experiment
                         ELSE /\ host_experiment' =
                                    << [mode |-> "networked", host |-> hst,
                                        port |-> port] >>
                              /\ hpc' = loaded[1]
                              /\ host_error' = loaded[2]
                    ELSE /\ HostRaises("ValueError", "unsupported_type")
                         /\ host_experiment' = host_experiment
    /\ UNCHANGED <<host_devices, exp_type, dataset>>
    /\ UNCHANGED nonHostVars

HostNext == VerifyDevices \/ SetupExperiment

HostSpec == HostInit /\ [][HostNext]_vars

-----------------------------------------------------------------------------

(* Properties *)

CleanupPcs == {"cleanup1", "cleanup2", "exited"}
ServingPcs == {"hdr", "hdr_chk", "payload"}
InSession == pc \in SessionPcs
Current == conns[Len(conns)]
OpenConns == {i \in 1 .. Len(conns) : conns[i].open}
AckCount == Cardinality({i \in 1 .. Len(out) : out[i] = Ack})

\* the session state of the spec's state machine, as a rank
SessionRank ==
    CASE pc \in {"cfg_len", "cfg_body"} -> 0     \* AwaitingConfig
      [] pc = "ready" -> 1                       \* Ready
      [] pc \in ServingPcs -> 2                  \* Serving
      [] OTHER -> 3                              \* Closed

\* C1: a session only moves forward through AwaitingConfig, Ready, Serving,
\* Closed; the acknowledgment is written at most once, as the first thing
\* written, and only with the config decoded and the experiment set up for it;
\* nothing is written and no request header is read before it; a session whose
\* config decoding or experiment setup failed has written nothing.
C1_AckInv ==
    /\ AckCount <= 1
    /\ (out # << >> => out[1] = Ack)
    /\ (AckCount = 1 => config # << >> /\ experiment = config)
    /\ (pc \in {"cfg_len", "cfg_body", "ready"} => out = << >> /\ reqs = << >>)
    /\ (pc \in ServingPcs => AckCount = 1)
    /\ (reqs # << >> => AckCount = 1)
    /\ (conns # << >> /\ (config = << >> \/ experiment = << >>) => out = << >>)

C1_Forward == Len(conns') = Len(conns) => SessionRank' >= SessionRank

C1_SessionMovesForward == []C1_AckInv /\ [][C1_Forward]_vars

\* a session that was acknowledged and has answered a request
C1_Witness == pc = "hdr" /\ Len(out) = 4 /\ out[1] = Ack

\* the response the server owes for the i-th request of the session
ResponseTo(i) ==
    LET compressed_result == CompressData(compress_data[1], reqs[i])
    IN  /\ out[3 * i - 1] = LenField(Len(compressed_result))
        /\ out[3 * i].kind = "time"
        /\ out[3 * i + 1] = DataField(compressed_result)

\* C2: whenever the serving loop is about to read a header, every request whose
\* full header was read in the session has been answered by exactly one
\* response, length then time then data, for its split index, and the
\* responses are in the order of the requests; while a request is being served
\* only that one is unanswered.
C2_ResponsesInOrder ==
    /\ pc \in {"hdr", "hdr_chk"} =>
          /\ Len(out) = 1 + 3 * Len(reqs)
          /\ \A i \in 1 .. Len(reqs) : ResponseTo(i)
    /\ pc = "payload" =>
          /\ Len(out) = 1 + 3 * (Len(reqs) - 1)
          /\ \A i \in 1 .. Len(reqs) - 1 : ResponseTo(i)

\* two requests for different split indexes were answered and the loop reads on
C2_Witness == pc = "hdr" /\ Len(reqs) = 2 /\ reqs[1] # reqs[2] /\ Len(out) = 7

\* C3: a header of fewer than 8 bytes ends the session without an exception:
\* the step the server takes then closes the connection and returns to accept,
\* and reads nothing, writes nothing and leaves the metrics alone.
C3_ShortHeaderStep ==
    (pc = "hdr_chk" /\ Len(header) # LENGTH_PREFIX_SIZE * 2 /\ ~sigint /\ pc' # pc)
    => /\ pc' = "accept"
       /\ ~conns'[Len(conns)].open
       /\ conns'[Len(conns)].outcome = "clean"
       /\ Len(conns') = Len(conns)
       /\ reads' = reads
       /\ out' = out
       /\ metrics' = metrics
       /\ stop_cause' = stop_cause

C3_ShortHeaderEndsSession == [][C3_ShortHeaderStep]_vars

\* a session that answered a request and then ended on a short header
C3_Witness ==
    /\ conns # << >>
    /\ pc = "accept"
    /\ Current.outcome = "clean"
    /\ ~Current.open
    /\ Current.served = 1

\* what _receive_config read fell short: the prefix had fewer than 4 bytes, or
\* fewer config bytes came than the prefix declared
ShortConfigRead ==
    \/ Len(prefix) < LENGTH_PREFIX_SIZE
    \/ config_data_len < config_length

\* C4: a session whose config length prefix or config bytes fell short never
\* gets past the config: no acknowledgment, no experiment, no request.
C4_ShortConfigFailsSession ==
    (pc \in {"ready"} \cup ServingPcs /\ ShortConfigRead)
    => (out = << >> /\ experiment = << >> /\ reqs = << >>)

\* C5: an exception raised in a session stays in the session: its connection is
\* closed, the exception does not leave handle_connection, and the accept loop
\* is never left because of it.
C5_SessionErrorsContained ==
    /\ stop_cause # "session_error"
    /\ \A i \in 1 .. Len(conns) :
          conns[i].outcome = "Exception" =>
              /\ ~conns[i].open
              /\ ~conns[i].escaped
              /\ (i = Len(conns) /\ stop_cause = "none" => pc = "accept")

\* after a session that failed, the next connection was accepted and acknowledged
C5_Witness ==
    /\ Len(conns) = 2
    /\ conns[1].outcome = "Exception"
    /\ pc = "hdr"
    /\ out = << Ack >>

\* C6: whenever handle_connection is not running, every connection it was
\* given is closed, however the session ended.
C6_ConnectionsClosed ==
    /\ ~InSession => OpenConns = {}
    /\ InSession => OpenConns \subseteq {Len(conns)}

\* a session was ended by a keyboard interrupt and its connection is closed
C6_Witness ==
    /\ conns # << >>
    /\ Current.outcome = "KeyboardInterrupt"
    /\ ~Current.open
    /\ pc = "cleanup1"

\* C7: at most one accepted connection is open, and it is the one of the
\* session in progress; a connection is accepted only when none is open.
C7_OneOpen == Cardinality(OpenConns) <= 1 /\ (pc = "accept" => OpenConns = {})

C7_AcceptStep == Len(conns') > Len(conns) => (pc = "accept" /\ OpenConns = {})

C7_OneSessionAtATime == []C7_OneOpen /\ [][C7_AcceptStep]_vars

\* a second client waits in the backlog while the first session is served
C7_Witness == pc \in ServingPcs /\ backlog = 1 /\ Len(conns) = 1 /\ Current.open

\* C8: a keyboard interrupt that becomes pending while the listener waits in
\* accept leads to cleanup: the accept call does not block for ever.
C8_InterruptLeadsToCleanup == (sigint /\ pc = "accept") ~> (pc \in CleanupPcs)

\* the listener was interrupted while it waited, no client ever connected
C8_Witness ==
    /\ pc = "cleanup1"
    /\ stop_cause = "KeyboardInterrupt"
    /\ server_socket = "listening"
    /\ conns = << >>
    /\ backlog = 0

\* the profile a session is meant to use: the one of its config, or the
\* minimal profile of process start
SessionProfile ==
    IF config[1].has_compression THEN config[1].compression ELSE MinimalProfile

\* C9: in every session the profile in force while requests are served is the
\* one of that session's config, or the minimal one when the config has none.
C9_ProfileOfTheSession ==
    pc \in ServingPcs => compress_data = << SessionProfile >>

RECURSIVE ServedUpTo(_)
\* requests processed in the first n sessions
ServedUpTo(n) == IF n = 0 THEN 0 ELSE ServedUpTo(n - 1) + conns[n].served

\* C10 as stated: the metrics of a session count the requests of that session
\* only, starting from zero in each session.
C10_MetricsPerSession ==
    InSession => metrics.total_requests = Current.served

\* C10 amended: the metrics belong to the process: they count the requests
\* processed in all its sessions, are never reset, and the final metrics line is
\* logged by cleanup at process exit only.
C10_MetricsPerProcess ==
    /\ metrics.total_requests = ServedUpTo(Len(conns))
    /\ (final_logs > 0 => pc \in {"cleanup2", "exited"})
    /\ (pc \in RunningPcs => final_logs = 0)

\* a second session starts with the requests of the first one in the metrics
C10_Witness ==
    /\ Len(conns) = 2
    /\ pc = "cfg_len"
    /\ conns[1].served = 1
    /\ metrics.total_requests = 1

\* the processing time a step added to the metrics
C11_Added == metrics'.total_processing_time - metrics.total_processing_time

C11_MetricsInv ==
    /\ metrics.total_requests = ServedUpTo(Len(conns))
    /\ IF metrics.total_requests = 0
       THEN metrics = NewMetrics
       ELSE metrics.avg_processing_time =
                << metrics.total_processing_time, metrics.total_requests >>

C11_UpdateStep ==
    /\ metrics'.total_requests >= metrics.total_requests
    /\ metrics' # metrics =>
          /\ pc = "payload"
          /\ metrics'.total_requests = metrics.total_requests + 1
          /\ C11_Added \in ProcTimes
          /\ metrics'.avg_processing_time =
                 << metrics'.total_processing_time, metrics'.total_requests >>
          /\ Len(out') >= Len(out) + 2 =>
                 out'[Len(out) + 2] = TimeField(C11_Added)
          /\ conns'[Len(conns)].served = Current.served + 1

\* C11: every ServerMetrics.update adds exactly 1 to total_requests and exactly
\* the measured processing time (the one sent in the response) to
\* total_processing_time, and leaves avg_processing_time at total_processing_time
\* / total_requests; total_requests never decreases and is the number of requests
\* whose processing completed, also those whose response was not sent.
C11_MetricsUpdate == []C11_MetricsInv /\ [][C11_UpdateStep]_vars

\* a request was processed and counted, and compressing its result failed:
\* nothing but the acknowledgment was written
C11_Witness ==
    /\ conns # << >>
    /\ pc = "accept"
    /\ Current.outcome = "Exception"
    /\ Current.served = 1
    /\ out = << Ack >>
    /\ metrics.total_requests = 1

\* C12: once Server.cleanup has returned, the listening socket is closed and
\* self.server_socket is None, also when shutdown raised and also after the
\* second cleanup of the entry point.
C12_ListenerClosedAfterCleanup ==
    pc \in {"cleanup2", "exited"} =>
        /\ server_socket \in {"none", "closed"}
        /\ ~sock_ref

\* C13: when the process has exited, the final metrics line was logged exactly
\* once if a request was processed, and not at all otherwise.
C13_FinalMetricsOnce ==
    pc = "exited" =>
        final_logs = IF metrics.total_requests > 0 THEN 1 ELSE 0

\* the boundaries whose record exists
Recorded == 1 .. Len(performance_records)
\* the data loader was exhausted at every boundary swept so far
SweepOver == rpc \in {"select", "save", "done"}

C14_ItemsInv ==
    /\ raised_by # "item"
    /\ rpc = "item" =>
          /\ failed \subseteq 1 .. item
          /\ Len(host_times) = item - Cardinality(failed)
          /\ Len(travel_times) = Len(host_times)
          /\ Len(server_times) = Len(host_times)
    /\ Len(aggregated) = Len(performance_records)
    /\ (rpc = "loop" /\ split_layer >= 1) =>
          aggregated[split_layer] = n_items - Cardinality(failed)
    /\ SweepOver => Len(performance_records) = total_layers - 1

C14_ItemStep ==
    failed' # failed /\ split_layer' = split_layer =>
        /\ rpc = "item" /\ rpc' = "item"
        /\ item' = item + 1
        /\ failed' = failed \cup {item'}
        /\ host_times' = host_times
        /\ travel_times' = travel_times
        /\ server_times' = server_times
        /\ performance_records' = performance_records

\* C14: a work item that raises in process_single_image is caught there: the
\* step adds nothing to the three lists of the boundary and goes on to the next
\* item, every boundary is recorded from the items that did not fail, and
\* run_experiment is never left by the exception of a work item.
C14_ItemFailuresContained == []C14_ItemsInv /\ [][C14_ItemStep]_vars

\* 2 boundaries, 5 work items, item 3 failed: 2 rows, each from 4 items
C14_Witness ==
    /\ rpc = "done"
    /\ total_layers = 3
    /\ n_items = 5
    /\ failed = {3}
    /\ aggregated = << 4, 4 >>
    /\ Len(saved[1]) = 2

\* C15: the boundary selected has the minimal total among the recorded
\* boundaries, and no boundary before it has the same total.
C15_BestIsFirstMinimum ==
    best_split # << >> =>
        /\ best_split[1] \in Recorded
        /\ \A j \in Recorded :
              /\ performance_records[best_split[1]].total
                    <= performance_records[j].total
              /\ (performance_records[j].total
                    = performance_records[best_split[1]].total
                  => j >= best_split[1])

\* two boundaries share the minimal total and the first one was selected
C15_Witness ==
    /\ rpc = "done"
    /\ Len(performance_records) = 2
    /\ performance_records[1].total = performance_records[2].total
    /\ performance_records[1].total > 0
    /\ best_split = << 1 >>

\* C16: the boundaries are visited in the order 1, 2, ..., each once, none
\* beyond total_layers - 1; when the sweep is over there is one record for each
\* of 1 .. total_layers - 1, and save_results is given exactly these records.
C16_SweepVisitsEachBoundaryOnce ==
    /\ \A i \in Recorded : performance_records[i].split_layer = i
    /\ split_layer < total_layers
    /\ rpc = "item" => Len(performance_records) = split_layer - 1
    /\ rpc = "loop" => Len(performance_records) = split_layer
    /\ SweepOver => Len(performance_records) = total_layers - 1
    /\ saved # << >> =>
          /\ saved[1] = performance_records
          /\ Len(saved[1]) = total_layers - 1
          /\ total_layers >= 2

\* a sweep of 2 boundaries in which items failed was saved
C16_Witness ==
    /\ rpc = "done"
    /\ total_layers = 3
    /\ Len(saved[1]) = 2
    /\ aggregated[1] < n_items
    /\ saved[1][2].split_layer = 2

\* the record of the boundary whose lists are still in place
LastRecordIsCurrent ==
    /\ split_layer >= 1
    /\ Len(performance_records) = split_layer
LastRecord == performance_records[split_layer]

\* every successful item of the boundary had the triple tr
UniformItems(tr) ==
    /\ \A i \in 1 .. Len(host_times) :
          /\ host_times[i] = tr[1]
          /\ travel_times[i] = tr[2]
          /\ server_times[i] = tr[3]

\* the sum of a list in exact arithmetic
RECURSIVE ExactSum(_)
ExactSum(l) == IF l = << >> THEN 0 ELSE ExactSum(Tail(l)) + l[1]

\* the exact sum of all the timings of the boundary
ExactTotal ==
    ExactSum(host_times) + ExactSum(travel_times) + ExactSum(server_times)

AbsDiff(a, b) == IF a < b THEN b - a ELSE a - b

\* |x - exact| <= g * exact, for g = k * u / (1 - k * u) and the unit roundoff
\* u = 2 ^ -MantissaBits: the bound on a value computed with k additions in a row
WithinRounding(x, exact, k) ==
    /\ k < 2 ^ MantissaBits
    /\ AbsDiff(x, exact) * (2 ^ MantissaBits - k) <= k * exact

Reached == {i \in 1 .. Len(probes) : probes[i].reached}

\* C18: the connections are probed in the resolved order, each at most once,
\* and the search stops at the first probe that succeeds; the constructed
\* device is bound to the connection of that probe, and to None exactly when
\* every retained connection was probed and none was reachable.
C18_FirstReachableIsBound ==
    /\ Len(probes) <= Len(connection_params)
    /\ \A i \in 1 .. Len(probes) : probes[i].cp = connection_params[i]
    /\ \A i \in Reached : i = Len(probes)
    /\ dpc = "probe" => Reached = {} /\ Len(probes) < Len(connection_params)
    /\ dpc = "ready" =>
          IF Reached # {}
          THEN working_cparams = << connection_params[Len(probes)] >>
          ELSE /\ working_cparams = << >>
               /\ Len(probes) = Len(connection_params)

\* of three connections the first was unreachable and the second and third
\* reachable: the device is bound to the second
C18_Witness ==
    /\ dpc = "ready"
    /\ Len(connection_params) = 3
    /\ Len(probes) = 2
    /\ ~probes[1].reached
    /\ probes[2].reached
    /\ connection_params[3].host \in reachable_hosts
    /\ working_cparams = << connection_params[2] >>

\* the entries of the record that pass both checks
PassingEntries ==
    {i \in 1 .. Len(device_record.connection_params) :
        device_record.connection_params[i].check = "ok"}

\* C19: the construction fails exactly when the record lacks a field or none
\* of its entries passes the checks; with an entry that passes, the device is
\* constructed whatever the probes find, and with no probe succeeding it is
\* not bound and is_reachable() returns False.
C19_FailsIffNoValidConnection ==
    /\ dpc = "failed" <=>
          (dpc # "new" /\ (device_record.fields # "ok" \/ PassingEntries = {}))
    /\ dpc = "failed" <=> ctor_error # "none"
    /\ (dpc = "ready" /\ Reached = {}) =>
          /\ working_cparams = << >>
          /\ (last_call = "is_reachable" => last_return = "False")

\* a device with two valid connections, none reachable, was constructed and
\* reports that it is not reachable
C19_Witness ==
    /\ dpc = "ready"
    /\ Cardinality(PassingEntries) = 2
    /\ Len(probes) = 2
    /\ Reached = {}
    /\ last_call = "is_reachable"
    /\ last_return = "False"

C20_Frame == dpc = "ready" => working_cparams' = working_cparams

C20_Cached ==
    (dpc = "ready" /\ last_call = "is_reachable") =>
        (last_return = "True" <=> Reached # {})

\* C20: once the device is constructed no operation changes working_cparams,
\* and is_reachable() returns what the probes of the construction found,
\* whatever the hosts answer now.
C20_ReachabilityIsCached == []C20_Cached /\ [][C20_Frame]_vars

\* the host the device is bound to no longer answers, another one of its
\* hosts does, and is_reachable() returns True
C20_Witness ==
    /\ dpc = "ready"
    /\ working_cparams # << >>
    /\ working_cparams[1].host \notin reachable_hosts
    /\ reachable_hosts # {}
    /\ last_call = "is_reachable"
    /\ last_return = "True"

\* C21: on a device that is not bound, get_host (and get_port, get_username,
\* get_private_key_path alike) fails with the dedicated NotBoundError and
\* returns no value.
C21_GettersRaiseNotBoundError ==
    (dpc = "ready" /\ last_call = "get_host" /\ working_cparams = << >>) =>
        last_return = "NotBoundError"

\* C25: in a constructed device connection_params holds the connections made
\* from the entries that passed the checks, each once and with the default
\* flag of its entry, every default one before every non-default one, and two
\* connections with the same flag in the order of their entries in the record
\* (hosts are numbered by the position of the entry).
C25_DefaultFirstStable ==
    dpc \in {"probe", "ready"} =>
        /\ Len(connection_params) = Cardinality(PassingEntries)
        /\ \A i \in 1 .. Len(connection_params) :
              /\ connection_params[i].host \in PassingEntries
              /\ connection_params[i].default =
                    device_record.connection_params[
                        connection_params[i].host].default
        /\ \A i, j \in 1 .. Len(connection_params) :
              i < j =>
                 /\ connection_params[j].default => connection_params[i].default
                 /\ connection_params[i].default = connection_params[j].default
                       => connection_params[i].host < connection_params[j].host

\* the record lists a non-default entry and then two default ones: the two
\* defaults come first, in their order, and the non-default one last
C25_Witness ==
    /\ dpc = "ready"
    /\ Len(device_record.connection_params) = 3
    /\ ~device_record.connection_params[1].default
    /\ Len(connection_params) = 3
    /\ connection_params[1] = [host |-> 2, default |-> TRUE]
    /\ connection_params[2] = [host |-> 3, default |-> TRUE]
    /\ connection_params[3] = [host |-> 1, default |-> FALSE]

\* the entry of the record a connection was made from
EntryOf(cp) == device_record.connection_params[cp.host]

\* C27: every connection of a constructed device, and so the one it is bound
\* to, was made from an entry that passes the permission check and the
\* validation of from_dict; each entry of the record had its key permissions
\* checked, and from_dict was called on it only after that check had passed.
C27_OnlyCheckedCredentials ==
    /\ dpc \in {"probe", "ready"} =>
          /\ \A i \in 1 .. Len(connection_params) :
                EntryOf(connection_params[i]).check = "ok"
          /\ working_cparams # << >> =>
                /\ EntryOf(working_cparams[1]).check = "ok"
                /\ \E i \in 1 .. Len(connection_params) :
                      connection_params[i] = working_cparams[1]
          /\ \A e \in 1 .. Len(device_record.connection_params) :
                \E k \in 1 .. Len(checks_made) :
                   /\ checks_made[k].entry = e
                   /\ checks_made[k].check = "permissions"
    /\ \A k \in 1 .. Len(checks_made) :
          /\ checks_made[k].passed =
                (IF checks_made[k].check = "permissions"
                 THEN device_record.connection_params[checks_made[k].entry].check
                         \in {"ok", "invalid"}
                 ELSE device_record.connection_params[checks_made[k].entry].check
                         \in {"ok", "permissions"})
          /\ checks_made[k].check = "from_dict" =>
                /\ k > 1
                /\ checks_made[k - 1] =
                      [entry |-> checks_made[k].entry, check |-> "permissions",
                       passed |-> TRUE]

\* a record whose first entry has a key file with the wrong permissions, whose
\* second fails the validation and whose third passes: the device is bound to
\* the third, and from_dict was never called on the first
C27_Witness ==
    /\ dpc = "ready"
    /\ Len(device_record.connection_params) = 3
    /\ device_record.connection_params[1] = [check |-> "permissions", default |-> TRUE]
    /\ device_record.connection_params[2].check = "invalid"
    /\ working_cparams = << [host |-> 3, default |-> FALSE] >>
    /\ Len(checks_made) = 5

\* C26: the construction fails in _set_username exactly for the usernames
\* whose length without the surrounding whitespace is 0 or at least 32; for a
\* length of 1 to 31 the stripped username is stored, and with a key file that
\* loads the construction succeeds.
C26_UsernameLength ==
    source # << >> /\ source.has_user =>
        LET n == Len(source.core)
            bad == n = 0 \/ n >= 32
        IN  /\ ppc \in {"rsa_key", "done"} => ~bad /\ username = << source.core >>
            /\ ppc = "raised" => (params_error = "username" <=> bad)
            /\ ppc = "raised" /\ params_error = "rsa_key" =>
                  source.pkey_fp # "loads"
            /\ ppc = "done" => private_key

\* a username of 31 characters, one of them a space, between whitespace was
\* stored stripped and the parameters were constructed
C26_Witness ==
    /\ ppc = "done"
    /\ source.lead = 2
    /\ source.trail = 1
    /\ source.core = Spaced(31)
    /\ username = << Spaced(31) >>

\* a listed device has both fields and an entry that passes the checks
Constructs(record) ==
    /\ record.fields = "ok"
    /\ \E i \in 1 .. Len(record.connection_params) :
          record.connection_params[i].check = "ok"

\* the positions in the file of the listed devices that construct
Constructed == {k \in 1 .. Len(datafile.devices) : Constructs(datafile.devices[k])}

\* the devices of the registry are the listed devices that construct, in the
\* order of the file
RegistryIsConstructed ==
    /\ Len(devices) = Cardinality(Constructed)
    /\ \A i \in 1 .. Len(devices) :
          /\ devices[i].host \in Constructed
          /\ devices[i].device_type = datafile.devices[devices[i].host].device_type
    /\ \A i, j \in 1 .. Len(devices) : i < j => devices[i].host < devices[j].host

\* C22: loading the listed devices never raises because of a listed device:
\* an entry whose construction fails (no valid credentials, no device_type, no
\* connection_params) is left out, and the registry holds exactly the entries
\* that construct, in the order of the file.
C22_LoadExcludesFailedEntries ==
    /\ mpc = "failed" =>
          manager_error \in {"FileNotFoundError", "SSHError", "YAMLError"}
    /\ mpc = "failed" /\ manager_error = "SSHError" => load_pos = 0
    /\ mpc \in {"ready", "fanout"} => RegistryIsConstructed

\* the devices an operation on every available device of a type is about
Targets ==
    SelectSeq(devices,
              LAMBDA d : /\ d.bound
                         /\ m_args.device_type \in {"None", d.device_type})

\* the operation has gone through the first Len(attempted) targets, in order,
\* and holds one entry per device it has called
FanOutProgress ==
    /\ Len(attempted) <= Len(Targets)
    /\ \A k \in 1 .. Len(attempted) : attempted[k].host = Targets[k].host
    /\ DOMAIN results = {attempted[k].host : k \in 1 .. Len(attempted)}

C24_TransferFanOutIsIndependent ==
    m_call = "transfer_to_devices" =>
        /\ FanOutProgress
        /\ \A k \in 1 .. Len(attempted) :
              results[attempted[k].host] = (attempted[k].outcome = "result")
        /\ m_return.raised = "none"
        /\ mpc = "ready" =>
              /\ Len(attempted) = Len(Targets)
              /\ m_return.value = results

\* the positions in the registry of the devices the filter of the last call
\* lets through
Selected ==
    {i \in 1 .. Len(devices) :
        /\ m_args.device_type \in {"None", devices[i].device_type}
        /\ m_args.available_only => devices[i].bound}

\* C28: get_device_by_type returns the device of the requested type that was
\* loaded first, bound or not, and None when the registry has no device of the
\* type; get_devices returns the devices its filter lets through, each once,
\* in load order (the registry is in the order of the file).
C28_FirstOfTypeInLoadOrder ==
    /\ \A i, j \in 1 .. Len(devices) : i < j => devices[i].host < devices[j].host
    /\ m_call = "get_device_by_type" =>
          IF Selected = {} THEN m_return.value = << >>
          ELSE \E i \in Selected :
                  /\ \A j \in Selected : i <= j
                  /\ m_return.value = << devices[i] >>
    /\ m_call = "get_devices" =>
          /\ Len(m_return.value) = Cardinality(Selected)
          /\ \A k \in 1 .. Len(m_return.value) :
                \E i \in Selected : m_return.value[k] = devices[i]
          /\ \A k, l \in 1 .. Len(m_return.value) :
                k < l => m_return.value[k].host < m_return.value[l].host

\* the registry holds two devices of one type, the first not bound and the
\* second bound: get_device_by_type returned the first
C28_Witness ==
    /\ m_call = "get_device_by_type"
    /\ Len(devices) = 2
    /\ devices[1].device_type = devices[2].device_type
    /\ m_args.device_type = devices[1].device_type
    /\ ~devices[1].bound
    /\ devices[2].bound
    /\ m_return.value = << devices[1] >>

\* a listed device has no entry that passes the checks, or has an entry whose
\* key file has the wrong permissions
CredentialTrouble(record) ==
    /\ record.fields = "ok"
    /\ \/ \A i \in 1 .. Len(record.connection_params) :
             record.connection_params[i].check # "ok"
       \/ \E i \in 1 .. Len(record.connection_params) :
             record.connection_params[i].check \in {"permissions", "both"}

EnvironmentPasses ==
    /\ datafile.status = "ok"
    /\ pkeys_dir = "ok" \/ (is_windows /\ pkeys_dir = "bad_permissions")

Range(s) == {s[i] : i \in 1 .. Len(s)}

\* the hosts whose probe succeeded
ProbedReachable ==
    {lan_probes[i].host : i \in {j \in 1 .. Len(lan_probes) : lan_probes[j].reached}}

\* C30: whatever the interleaving of the worker threads, no host is probed
\* twice and only hosts of hosts_to_check are probed; when the call returns
\* every host of hosts_to_check has been probed once, and the list returned
\* holds each host whose probe succeeded once and no other host, in any order.
C30_ExactlyTheReachableHosts ==
    /\ \A i, j \in 1 .. Len(lan_probes) :
          i # j => lan_probes[i].host # lan_probes[j].host
    /\ \A i \in 1 .. Len(lan_probes) : lan_probes[i].host \in Range(hosts_to_check)
    /\ hosts # << >> /\ lpc # "call" => hosts_to_check = hosts
    /\ lpc = "returned" =>
          /\ Len(lan_probes) = Len(hosts_to_check)
          /\ Range(available) = ProbedReachable
          /\ Len(available) = Cardinality(ProbedReachable)

\* of three hosts the probe of the first failed and the probes of the other
\* two succeeded; the third host was put before the second
C30_Witness ==
    /\ lpc = "returned"
    /\ hosts = << 1, 2, 3 >>
    /\ ProbedReachable = {2, 3}
    /\ Len(lan_probes) = 3
    /\ available = << 3, 2 >>

\* the position in performance_records of the boundary reported as best
BestIndex ==
    CHOOSE k \in 1 .. Len(performance_records) :
       performance_records[k].split_layer = best_split[1]

\* C36: the boundary reported as best was measured on at least one work item
\* whenever some boundary was measured on the full, non-empty work set: a
\* boundary at which every work item failed is not selected over it.
C36_BestHasProcessedItems ==
    (best_split # << >> /\ n_items > 0
       /\ \E k \in 1 .. Len(aggregated) : aggregated[k] = n_items)
    => aggregated[BestIndex] > 0

\* C37: with total_layers <= 1 the sweep has no boundary; run_experiment then
\* does not raise in the selection, saves the empty list of records and
\* reports no best boundary.
C37_EmptySweepTerminates ==
    total_layers <= 1 =>
        /\ raised_by # "min"
        /\ rpc \in {"done", "raised"} =>
              /\ saved = << << >> >>
              /\ best_split = << >>

\* C39: get_available_hosts probes only hosts the caller gave and returns only
\* such hosts; given an empty list it probes nothing and returns nothing.
C39_OnlyGivenHostsProbed ==
    /\ \A i \in 1 .. Len(lan_probes) : lan_probes[i].host \in Range(hosts)
    /\ Range(available) \subseteq Range(hosts)
    /\ hosts = << >> => lan_probes = << >> /\ available = << >>

\* C31: no call of is_host_reachable raises; it returns True exactly when the
\* connection was made and False for a connection refused, a timeout, an
\* unreachable host and a name that does not resolve; a probe socket is open
\* only while its worker is inside the `with` block, so it is closed when
\* is_host_reachable returns.
C31_ProbeNeverRaises ==
    /\ \A i \in 1 .. Len(lan_probes) :
          /\ lan_probes[i].raised = "none"
          /\ lan_probes[i].reached = (lan_probes[i].outcome = "connected")
    /\ \A w \in open_sockets : workers[w].state = "connected"
    /\ lpc = "returned" => open_sockets = {}

\* three probes were made: one met a name that does not resolve, one a
\* timeout, one connected; all returned and no socket is left open
C31_Witness ==
    /\ lpc = "returned"
    /\ Len(lan_probes) = 3
    /\ {lan_probes[i].outcome : i \in 1 .. 3} = {"dns_failure", "timeout", "connected"}
    /\ Cardinality(ProbedReachable) = 1
    /\ open_sockets = {}


-----------------------------------------------------------------------------
(* Response framing *)

\* the bytes the fields put on the wire, in order
RECURSIVE Flatten(_)
Flatten(fields) ==
    IF fields = << >> THEN << >> ELSE Head(fields).val \o Flatten(Tail(fields))

\* what a client reads from a byte stream of responses: 4 bytes of length, 4
\* bytes of time, then as many bytes as the length says, again and again;
\* << 256 >> stands for a read that finds fewer bytes than it expects
RECURSIVE ClientResults(_)
ClientResults(stream) ==
    IF stream = << >> THEN << >>
    ELSE IF Len(stream) < 2 * LENGTH_PREFIX_SIZE THEN << << 256 >> >>
    ELSE LET result_length == FromBytesBig(Take(stream, LENGTH_PREFIX_SIZE))
             rest == Drop(stream, 2 * LENGTH_PREFIX_SIZE)
         IN  IF Len(rest) < result_length THEN << << 256 >> >>
             ELSE << Take(rest, result_length) >> \o
                  ClientResults(Drop(rest, result_length))

-----------------------------------------------------------------------------
(* Length fields *)

\* the length << high, low >> as one integer, for lengths below 2^31
Narrow(n) == 65536 * n[1] + n[2]

\* C34: a length of 0 .. 2^32 - 1 written as a 4-byte big-endian field is 4
\* bytes, each below 256, and reading the field back as a big-endian integer
\* gives the length again; below 2^31 the field and the value read are those
\* the server's own encoder and decoder give.
C34_LengthRoundTrip ==
    /\ cpc \in {"encoded", "decoded"} =>
          /\ Len(field) = LENGTH_PREFIX_SIZE
          /\ \A i \in 1 .. Len(field) : field[i] < 256
          /\ length[1] < 32768 => /\ field = ToBytesBig4(Narrow(length))
                                  /\ FromBytesBig(field) = Narrow(length)
    /\ cpc = "decoded" => decoded = length

\* the largest length, 2^32 - 1, has gone through the field
C34_Witness ==
    /\ cpc = "decoded"
    /\ length = << 65535, 65535 >>
    /\ field = << 255, 255, 255, 255 >>


-----------------------------------------------------------------------------
(* Requests that arrive in pieces *)

\* the server has read the first bytes of a request that the client, still
\* connected, has written in full, and nothing else stands in the way of an
\* answer
C35_CompleteRequestPending ==
    /\ pc = "hdr_chk"
    /\ ~sigint
    /\ peer_open
    /\ compress_data # << >>
    /\ \E i \in SplitIndexes : header \o inbuf = Request(i)

\* C35: a request whose 8-byte header and whose payload the client has written
\* in full, on a connection it keeps open, is answered however the bytes are
\* split into reads: the server never ends the session with such a request
\* read in part, after which no response to it can follow.
C35_CompleteRequestsAnswered ==
    [][C35_CompleteRequestPending => pc' \in SessionPcs]_vars


-----------------------------------------------------------------------------
(* Saving and reloading the registry *)

\* what the registry holds: per device, in order, its type and its
\* credentials with their default flags
RegistryHeld ==
    [i \in 1 .. Len(devices) |->
        [device_type |-> devices[i].device_type,
         connection_params |-> ConnectionParamsOf(devices[i])]]

\* C40: a DeviceManager loaded from the file _save_devices wrote holds the
\* devices the saving manager held: the same types, the same credentials in
\* the same order, the same default flags.
C40_SaveReloadRoundTrip == spc = "reloaded" => reloaded = RegistryHeld


-----------------------------------------------------------------------------
(* The experiment host *)

\* C32: a loaded device that has valid credentials but is not reachable does
\* not make ExperimentHost.__init__ raise: no exception caused by the missing
\* connection leaves _verify_devices or _setup_experiment.
C32_UnreachableDeviceDoesNotCrash ==
    (\E i \in 1 .. Len(host_devices) : ~host_devices[i].bound)
        => host_error.exc # "AttributeError"

\* _setup_experiment has run, to its end or to an exception
SetupHasRun ==
    /\ hpc \in {"ready", "raised"}
    /\ host_error.at # "_verify_devices"

\* the mode of self.experiment, "none" while there is no experiment
ExperimentMode ==
    IF host_experiment = << >> THEN "none" ELSE host_experiment[1].mode

\* the networked experiment _setup_experiment makes for a SERVER device
NetworkedWith(device) ==
    << [mode |-> "networked", host |-> device.host,
        port |-> IF device.port = "None" THEN "DEFAULT_PORT" ELSE device.port] >>

RaisedValueError ==
    /\ hpc = "raised"
    /\ host_error.exc = "ValueError"
    /\ host_experiment = << >>

\* the cases that do not depend on the host of the SERVER device: without a
\* SERVER device, or with type "local", the experiment is local; a type that
\* is none of auto, local, networked raises ValueError with a SERVER device
ModeWithoutHost ==
    /\ exp_type = "auto" /\ ServerDevice = << >> => ExperimentMode = "local"
    /\ exp_type = "local" \/ ServerDevice = << >> => ExperimentMode = "local"
    /\ exp_type \notin {"auto", "local", "networked"} /\ ServerDevice # << >>
          => RaisedValueError

\* C38 as stated: "auto" is networked exactly when a SERVER device is found;
\* "local", or no SERVER device, is local; "networked" with a SERVER device is
\* a networked experiment with the host of the device and its port or
\* DEFAULT_PORT; any other type with a SERVER device raises ValueError.
C38_ModeSelectionAsStated ==
    SetupHasRun =>
       /\ ModeWithoutHost
       /\ exp_type = "auto" /\ ServerDevice # << >> => ExperimentMode = "networked"
       /\ exp_type = "networked" /\ ServerDevice # << >>
             => host_experiment = NetworkedWith(ServerDevice[1])

\* C38, amended: as stated when the SERVER device has a host; when the host
\* of the SERVER device is None, "networked", explicit or selected by "auto",
\* raises ValueError and no experiment is made.
C38_ModeSelection ==
    SetupHasRun =>
       /\ ModeWithoutHost
       /\ exp_type \in {"auto", "networked"} /\ ServerDevice # << >> =>
             IF ServerDevice[1].host = "None"
             THEN RaisedValueError
             ELSE host_experiment = NetworkedWith(ServerDevice[1])

\* "auto" selected the networked mode for a SERVER device without a port, and
\* the initialisation went to its end
C38_Witness ==
    /\ hpc = "ready"
    /\ exp_type = "auto"
    /\ host_experiment =
          << [mode |-> "networked", host |-> "10.0.0.2", port |-> "DEFAULT_PORT"] >>

=============================================================================
